---- MODULE Spec2Model ----
(***************************************************************************)
(* Model of the movie-notifier-bot notification pipeline:                  *)
(*   SentHistory (src/src/state/mod.rs), the formatter                     *)
(*   (src/src/formatter/mod.rs), Orchestrator::run                         *)
(*   (src/src/orchestrator.rs), app::dispatch_and_persist (src/src/app.rs) *)
(*   and main::run_pipeline (src/src/main.rs): specification Spec.         *)
(* SentHistory on its own: SpecLedger.  TelegramDispatcher                 *)
(* (src/src/telegram/mod.rs) on its own: SpecTelegram.  TmdbClient         *)
(* (src/src/tmdb/mod.rs) on its own: SpecTmdb.                             *)
(*                                                                         *)
(* Texts are sequences of one-character strings.  A stored blob (the local *)
(* history file or the remote artifact) is a record                        *)
(*   [present |-> BOOLEAN, bytes |-> text].                                *)
(***************************************************************************)
EXTENDS Integers, Sequences, FiniteSets, TLC

(***************************************************************************)
(* Bounds of the model.                                                    *)
(***************************************************************************)
MaxId == 3
MaxFetch == 2
MaxRuns == 2
IdBits == 4
MaxAppend == 2
MaxRetries == 2
MaxBatch == 2
MaxMovies == 2
MaxLines == 2
MaxLineLen == 5
MaxDates == 2
MaxRegions == 2

(***************************************************************************)
(* Program constants.                                                      *)
(***************************************************************************)
TELEGRAM_MESSAGE_LIMIT == 4096
PRIORITY_WINDOW_HOURS == 48
HISTORY_ARTIFACT_NAME == "sent_movie_ids"
HISTORY_FILE_NAME == "sent_movie_ids.txt"

\* the largest MovieId: u64::MAX, at the width IdBits of the model
MOVIE_ID_MAX == 2 ^ IdBits - 1

Ids == 1..MaxId

VARIABLES
    entry,       \* which entry point drives the runs of this deployment
    run,         \* number of the current run
    pc,          \* stage of the current run
    result,      \* what the run returned: "none" while running, "ok" or an error
    ids,         \* SentHistory.ids
    file,        \* the local history file (SentHistory.file_path)
    remote,      \* the remote artifact (ArtifactStore)
    known,       \* the release provider's preloaded history (TmdbClient.history)
    restored,    \* what restore left: [ok, ids, file]
    releases,    \* the releases the fetch returned
    unique,      \* filter_new_releases: releases not in the history
    duplicates,  \* filter_new_releases: number of releases in the history
    messages,    \* the messages built for this run
    grouped,     \* messages still to be sent, per chat
    sent,        \* messages the dispatcher delivered in this run
    dispatched,  \* app: the releases ReleaseDispatcher::dispatch returned
    uploads,     \* blobs uploaded to the artifact store in this run
    persistErr,  \* "none", or the failure of persist() in this run
    summary,     \* the RunSummary of Orchestrator::run
    confirmed,   \* ids notified by earlier runs that returned success
    prev,        \* the run before, when it failed after delivering to a chat
    call,        \* the last call made on a SentHistory on its own
    saved,       \* the id set the last successful persist() stored
    dispatcher,  \* the TelegramDispatcher: chat_ids, max_retries, retry_delays
    batch,       \* the send_batch call: its chat_id and messages
    sending,     \* send_batch and send_single: the message index and retries
    trace,       \* the transport calls and sleeps made for the current message
    answered,    \* indices of the messages answered with success, in order
    failed,      \* indices of the messages send_single returned an error for
    posts,       \* number of transport calls made in the send_batch call
    tgResult,    \* what send_batch returned, "none" until it returns
    fetch,       \* the fetch_digital_releases call of a TmdbClient
    attempts,    \* the sends and sleeps of the current catalog network call
    tmdbResult,  \* what fetch_digital_releases returned, "none" until then
    applied,     \* the last function applied on its own: its name, inputs, value
    racers       \* the runs that share the remote artifact, <<>> when there are none

vars == <<entry, run, pc, result, ids, file, remote, known, restored, releases,
          unique, duplicates, messages, grouped, sent, dispatched, uploads,
          persistErr, summary, confirmed, prev, call, saved, dispatcher, batch,
          sending, trace, answered, failed, posts, tgResult, fetch, attempts,
          tmdbResult, applied, racers>>

\* the variables of the components exercised on their own
telegramVars ==
    <<dispatcher, batch, sending, trace, answered, failed, posts, tgResult>>
tmdbVars == <<fetch, attempts, tmdbResult>>
functionVars == <<applied, racers>>
componentVars == <<call, saved, telegramVars, tmdbVars, functionVars>>

(***************************************************************************)
(* Generic helpers.                                                        *)
(***************************************************************************)
Range(s) == {s[i] : i \in DOMAIN s}

SeqsUpTo(S, n) == UNION {[1..k -> S] : k \in 0..n}

Min(S) == CHOOSE x \in S : \A y \in S : x <= y

RECURSIVE SetToSortedSeq(_)
SetToSortedSeq(S) ==
    IF S = {} THEN <<>>
    ELSE LET m == Min(S) IN <<m>> \o SetToSortedSeq(S \ {m})

(***************************************************************************)
(* Text: decimal rendering and parsing of a MovieId (u64).                 *)
(***************************************************************************)
DigitChars == <<"0", "1", "2", "3", "4", "5", "6", "7", "8", "9">>

NL == "\n"
SP == " "
PLUS == "+"

DigitValue(c) == (CHOOSE d \in 1..10 : DigitChars[d] = c) - 1

IsDigit(c) == c \in Range(DigitChars)

\* u64::to_string
RECURSIVE to_string(_)
to_string(n) ==
    IF n < 10 THEN <<DigitChars[n + 1]>>
    ELSE to_string(n \div 10) \o <<DigitChars[(n % 10) + 1]>>

\* the digit loop of MovieId::from_str: checked multiply and add, an error
\* at the first character that is no digit or when the value overflows
RECURSIVE DigitsValue(_, _)
DigitsValue(s, acc) ==
    IF s = <<>> THEN [ok |-> TRUE, val |-> acc]
    ELSE IF ~IsDigit(s[1]) THEN [ok |-> FALSE, val |-> 0]
    ELSE LET next == 10 * acc + DigitValue(s[1]) IN
         IF next > MOVIE_ID_MAX THEN [ok |-> FALSE, val |-> 0]
         ELSE DigitsValue(Tail(s), next)

\* MovieId::from_str: an optional "+" and a non-empty run of decimal digits
\* whose value fits the width, otherwise an error
from_str(s) ==
    LET digits == IF s # <<>> /\ s[1] = PLUS THEN Tail(s) ELSE s IN
    IF digits = <<>> THEN [ok |-> FALSE, val |-> 0]
    ELSE DigitsValue(digits, 0)

\* str::lines: split at "\n"; a final empty line is not produced
RECURSIVE lines(_)
lines(s) ==
    IF s = <<>> THEN <<>>
    ELSE IF \E i \in DOMAIN s : s[i] = NL
    THEN LET i == Min({j \in DOMAIN s : s[j] = NL})
         IN <<SubSeq(s, 1, i - 1)>> \o lines(SubSeq(s, i + 1, Len(s)))
    ELSE <<s>>

\* str::trim: drop leading and trailing white space
RECURSIVE trim(_)
trim(s) ==
    IF s = <<>> THEN s
    ELSE IF s[1] = SP THEN trim(Tail(s))
    ELSE IF s[Len(s)] = SP THEN trim(SubSeq(s, 1, Len(s) - 1))
    ELSE s

\* [String]::join("\n")
RECURSIVE join(_)
join(ls) ==
    IF ls = <<>> THEN <<>>
    ELSE IF Len(ls) = 1 THEN ls[1]
    ELSE ls[1] \o <<NL>> \o join(Tail(ls))

(***************************************************************************)
(* SentHistory (src/src/state/mod.rs).                                     *)
(***************************************************************************)
NoBlob == [present |-> FALSE, bytes |-> <<>>]
Blob(b) == [present |-> TRUE, bytes |-> b]

\* what upload_artifact receives: the artifact name, the file name and the
\* content
Upload(raw) ==
    [artifact_name |-> HISTORY_ARTIFACT_NAME, file_name |-> HISTORY_FILE_NAME,
     content |-> raw]

\* SentHistory::contains
contains(set, id) == id \in set

\* append that assigns the given ids instead of inserting them
append_overwrite(set, new_ids) ==
    [ids |-> Range(new_ids),
     inserted |-> Cardinality(Range(new_ids) \ set)]

\* append that counts every given id the ledger lacked before the call, also
\* when the input repeats it
append_count_repeats(set, new_ids) ==
    [ids |-> set \cup Range(new_ids),
     inserted |-> Cardinality({i \in DOMAIN new_ids : new_ids[i] \notin set})]

\* append that counts every given id, whatever insert() answered
append_count_all(set, new_ids) ==
    [ids |-> set \cup Range(new_ids), inserted |-> Len(new_ids)]

\* SentHistory::append: insert each id, count the ones that were new
RECURSIVE append(_, _)
append(set, new_ids) ==
    IF new_ids = <<>> THEN [ids |-> set, inserted |-> 0]
    ELSE LET id == new_ids[1]
             rest == append(set \cup {id}, Tail(new_ids))
         IN [ids |-> rest.ids,
             inserted |-> rest.inserted + (IF id \in set THEN 0 ELSE 1)]

\* [String]::join(" ")
RECURSIVE join_spaces(_)
join_spaces(ls) ==
    IF ls = <<>> THEN <<>>
    ELSE IF Len(ls) = 1 THEN ls[1]
    ELSE ls[1] \o <<SP>> \o join_spaces(Tail(ls))

\* render_file that separates the ids by spaces
render_file_spaced(set) ==
    LET sorted == SetToSortedSeq(set)
    IN join_spaces([i \in DOMAIN sorted |-> to_string(sorted[i])])

\* render_file that walks the set from the largest id down
render_file_descending(set) ==
    LET sorted == SetToSortedSeq(set)
        n == Len(sorted)
    IN join([i \in DOMAIN sorted |-> to_string(sorted[n + 1 - i])])

\* SentHistory::render_file: ascending decimal ids joined by "\n"
render_file(set) ==
    LET sorted == SetToSortedSeq(set)
    IN join([i \in DOMAIN sorted |-> to_string(sorted[i])])

\* the loop of SentHistory::apply_raw over the lines of the text
RECURSIVE parse_lines(_, _)
parse_lines(ls, parsed) ==
    IF ls = <<>> THEN [ok |-> TRUE, ids |-> parsed]
    ELSE LET trimmed == trim(ls[1]) IN
         IF trimmed = <<>> THEN parse_lines(Tail(ls), parsed)
         ELSE LET id == from_str(trimmed) IN
              IF ~id.ok THEN [ok |-> FALSE, ids |-> parsed]
              ELSE parse_lines(Tail(ls), parsed \cup {id.val})

\* apply_raw that keeps the ids parsed before the malformed line
apply_raw_partial(set, data) ==
    IF data = <<>> THEN [ok |-> TRUE, ids |-> {}]
    ELSE LET p == parse_lines(lines(data), {}) IN [ok |-> p.ok, ids |-> p.ids]

\* the loop of apply_raw, skipping the lines that are no id
RECURSIVE parse_lines_skipping(_, _)
parse_lines_skipping(ls, parsed) ==
    IF ls = <<>> THEN parsed
    ELSE LET id == from_str(trim(ls[1])) IN
         parse_lines_skipping(Tail(ls),
                              IF id.ok THEN parsed \cup {id.val} ELSE parsed)

\* apply_raw that skips malformed lines and goes on
apply_raw_skipping(set, data) ==
    [ok |-> TRUE, ids |-> parse_lines_skipping(lines(data), {})]

\* SentHistory::apply_raw: the new id set, or an error that leaves it as it was
apply_raw(set, data) ==
    IF data = <<>> THEN [ok |-> TRUE, ids |-> {}]
    ELSE LET p == parse_lines(lines(data), {}) IN
         IF p.ok THEN [ok |-> TRUE, ids |-> p.ids]
         ELSE [ok |-> FALSE, ids |-> set]

\* restore that reads the local file when there is one, and the remote blob
\* only otherwise
restore_local_first(set, f, r, dl, io) ==
    IF f.present
    THEN IF io = "err" THEN [ok |-> FALSE, ids |-> set, file |-> f]
         ELSE LET a == apply_raw(set, f.bytes)
              IN [ok |-> a.ok, ids |-> a.ids, file |-> f]
    ELSE IF dl = "err" THEN [ok |-> FALSE, ids |-> set, file |-> f]
    ELSE IF r.present
    THEN IF io = "err" THEN [ok |-> FALSE, ids |-> set, file |-> f]
         ELSE LET a == apply_raw(set, r.bytes)
              IN [ok |-> a.ok, ids |-> a.ids, file |-> Blob(r.bytes)]
    ELSE [ok |-> TRUE, ids |-> set, file |-> f]

\* restore that falls back to the local file when the download fails, too
restore_fallback_on_error(set, f, r, dl, io) ==
    IF dl = "ok" /\ r.present
    THEN IF io = "err" THEN [ok |-> FALSE, ids |-> set, file |-> f]
         ELSE LET a == apply_raw(set, r.bytes)
              IN [ok |-> a.ok, ids |-> a.ids, file |-> Blob(r.bytes)]
    ELSE IF f.present
    THEN IF io = "err" THEN [ok |-> FALSE, ids |-> set, file |-> f]
         ELSE LET a == apply_raw(set, f.bytes)
              IN [ok |-> a.ok, ids |-> a.ids, file |-> f]
    ELSE [ok |-> dl = "ok", ids |-> set, file |-> f]

\* restore that does not fall back to the local file
restore_remote_only(set, f, r, dl, io) ==
    IF dl = "err" THEN [ok |-> FALSE, ids |-> set, file |-> f]
    ELSE IF r.present
    THEN IF io = "err" THEN [ok |-> FALSE, ids |-> set, file |-> f]
         ELSE LET a == apply_raw(set, r.bytes)
              IN [ok |-> a.ok, ids |-> a.ids, file |-> Blob(r.bytes)]
    ELSE [ok |-> TRUE, ids |-> set, file |-> f]

\* SentHistory::restore for one outcome of the download (dl) and of the file
\* system call it makes (io): the result and the new id set and local file
restore(set, f, r, dl, io) ==
    IF dl = "err" THEN [ok |-> FALSE, ids |-> set, file |-> f]
    ELSE IF r.present
    THEN IF io = "err" THEN [ok |-> FALSE, ids |-> set, file |-> f]
         ELSE LET a == apply_raw(set, r.bytes)
              IN [ok |-> a.ok, ids |-> a.ids, file |-> Blob(r.bytes)]
    ELSE IF f.present
    THEN IF io = "err" THEN [ok |-> FALSE, ids |-> set, file |-> f]
         ELSE LET a == apply_raw(set, f.bytes)
              IN [ok |-> a.ok, ids |-> a.ids, file |-> f]
    ELSE [ok |-> TRUE, ids |-> set, file |-> f]

\* persist that uploads before it writes the local file
persist_upload_first(set, f, r, ups, io, up) ==
    LET raw == render_file(set) IN
    IF up = "err"
    THEN [err |-> "upload", file |-> f, remote |-> r, uploads |-> ups,
          upload_calls |-> 1]
    ELSE IF io = "err"
    THEN [err |-> "io", file |-> f, remote |-> Blob(raw),
          uploads |-> Append(ups, Upload(raw)), upload_calls |-> 1]
    ELSE [err |-> "none", file |-> Blob(raw), remote |-> Blob(raw),
          uploads |-> Append(ups, Upload(raw)), upload_calls |-> 1]

\* persist that uploads its set merged with the ids the remote blob holds
persist_merging(set, f, r, ups, io, up) ==
    LET held == IF r.present THEN apply_raw({}, r.bytes).ids ELSE {}
        raw == render_file(set \cup held)
    IN IF io = "err"
       THEN [err |-> "io", file |-> f, remote |-> r, uploads |-> ups,
             upload_calls |-> 0]
       ELSE IF up = "err"
       THEN [err |-> "upload", file |-> Blob(raw), remote |-> r, uploads |-> ups,
             upload_calls |-> 1]
       ELSE [err |-> "none", file |-> Blob(raw), remote |-> Blob(raw),
             uploads |-> Append(ups, Upload(raw)), upload_calls |-> 1]

\* SentHistory::persist for one outcome of the local write (io) and of the
\* upload (up): the error if any, the new local file, remote blob and uploads,
\* and the number of calls of upload_artifact it made
persist(set, f, r, ups, io, up) ==
    LET raw == render_file(set) IN
    IF io = "err"
    THEN [err |-> "io", file |-> f, remote |-> r, uploads |-> ups,
          upload_calls |-> 0]
    ELSE IF up = "err"
    THEN [err |-> "upload", file |-> Blob(raw), remote |-> r, uploads |-> ups,
          upload_calls |-> 1]
    ELSE [err |-> "none", file |-> Blob(raw), remote |-> Blob(raw),
          uploads |-> Append(ups, Upload(raw)), upload_calls |-> 1]

(***************************************************************************)
(* Configuration (src/src/config.rs) and the catalog the runs draw from.   *)
(***************************************************************************)
\* the TelegramConfig of the deployment: chat 10 wants "ru", chat 20 wants
\* "ru" and "en"
Chats == << [chat_id |-> 10, locales |-> <<"ru">>],
            [chat_id |-> 20, locales |-> <<"ru", "en">>] >>

ChatIds == {Chats[i].chat_id : i \in DOMAIN Chats}

\* ChatConfig::matches_locale
matches_locale(chat, locale) ==
    chat.locales = <<>> \/ \E i \in DOMAIN chat.locales : chat.locales[i] = locale

\* the instant of the run, in hours: noon of day 10
Now == 10 * 24 + 12

\* the catalog entry of an id (tmdb::MovieRelease); titles are sequences of
\* character codes, title_len is the byte length of the escaped title
MovieRelease(id) ==
    [id |-> id,
     title |-> <<(id * 2) % 3, id>>,
     title_len |-> IF id % 3 = 0 THEN 20 ELSE 2500,
     digital_release_date |-> IF id % 2 = 0 THEN 10 ELSE 7,
     original_language |-> CASE id % 3 = 1 -> "ru"
                             [] id % 3 = 2 -> "en"
                             [] OTHER -> "fr"]

IdsOf(rs) == [i \in DOMAIN rs |-> rs[i].id]

\* Orchestrator::convert_releases: the release time is midnight of the date
convert_releases(rs) ==
    [i \in DOMAIN rs |->
        [id |-> rs[i].id,
         title |-> rs[i].title,
         title_len |-> rs[i].title_len,
         release_time |-> rs[i].digital_release_date * 24,
         locale |-> rs[i].original_language]]

(***************************************************************************)
(* Formatter (src/src/formatter/mod.rs).                                   *)
(***************************************************************************)
HEADER_LEN == 42
LINE_FIXED_LEN == 28
EMPTY_TEXT_LEN == 65

\* formatter::is_priority
is_priority(release_time, now) ==
    release_time <= now /\ now - release_time <= PRIORITY_WINDOW_HOURS

\* String::cmp on titles: lexicographic order
RECURSIVE TitleLess(_, _)
TitleLess(a, b) ==
    IF b = <<>> THEN FALSE
    ELSE IF a = <<>> THEN TRUE
    ELSE IF a[1] # b[1] THEN a[1] < b[1]
    ELSE TitleLess(Tail(a), Tail(b))

\* the comparator of group_releases_by_chat: a sorts before b
ChatReleaseLess(a, b) ==
    IF a.priority # b.priority THEN a.priority
    ELSE IF a.release_time # b.release_time THEN a.release_time < b.release_time
    ELSE TitleLess(a.title, b.title)

\* slice::sort_by (stable): insert x before the first element it sorts before
InsertSorted(s, x) ==
    LET later == {i \in DOMAIN s : ChatReleaseLess(x, s[i])}
        at == IF later = {} THEN Len(s) + 1 ELSE Min(later)
    IN SubSeq(s, 1, at - 1) \o <<x>> \o SubSeq(s, at, Len(s))

RECURSIVE sort_by(_)
sort_by(s) ==
    IF s = <<>> THEN <<>>
    ELSE InsertSorted(sort_by(SubSeq(s, 1, Len(s) - 1)), s[Len(s)])

ChatReleasesOf(rs, chat, now) ==
    LET matching == SelectSeq(rs, LAMBDA r : matches_locale(chat, r.locale))
    IN [i \in DOMAIN matching |->
           [id |-> matching[i].id,
            title |-> matching[i].title,
            title_len |-> matching[i].title_len,
            release_time |-> matching[i].release_time,
            priority |-> is_priority(matching[i].release_time, now)]]

\* formatter::group_releases_by_chat: one payload per chat that has releases
RECURSIVE group_loop(_, _, _)
group_loop(rs, chats, now) ==
    IF chats = <<>> THEN <<>>
    ELSE LET chat_releases == ChatReleasesOf(rs, chats[1], now)
             rest == group_loop(rs, Tail(chats), now)
         IN IF chat_releases = <<>> THEN rest
            ELSE <<[chat_id |-> chats[1].chat_id,
                    releases |-> sort_by(chat_releases)]>> \o rest

group_releases_by_chat(rs, config, now) == group_loop(rs, config, now)

TelegramMessage(chat_id, kind, len, items) ==
    [chat_id |-> chat_id, kind |-> kind, len |-> len, items |-> items]

\* the loop of formatter::chunk_lines; a line is [len, id], cur is the text
\* being filled
RECURSIVE chunk_loop(_, _, _, _, _, _)
chunk_loop(chat_id, header_len, ls, max_len, cur, out) ==
    IF ls = <<>> THEN
        IF cur.len # 0
        THEN Append(out, TelegramMessage(chat_id, "release", cur.len, cur.items))
        ELSE out
    ELSE LET line == ls[1]
             additional == 1 + line.len
             flush == cur.len + additional > max_len
             base == IF flush THEN [len |-> header_len, items |-> <<>>] ELSE cur
             out2 == IF flush
                     THEN Append(out, TelegramMessage(chat_id, "release",
                                                      cur.len, cur.items))
                     ELSE out
         IN chunk_loop(chat_id, header_len, Tail(ls), max_len,
                       [len |-> base.len + additional,
                        items |-> Append(base.items, line.id)],
                       out2)

\* formatter::chunk_lines
chunk_lines(chat_id, header_len, ls, max_len) ==
    IF ls = <<>> THEN <<>>
    ELSE chunk_loop(chat_id, header_len, ls, max_len,
                    [len |-> header_len, items |-> <<>>], <<>>)

\* the line build_messages formats for a release: marker, title, date, platforms
LineOf(r) ==
    [id |-> r.id,
     len |-> (IF r.priority THEN 4 ELSE 3) + r.title_len + LINE_FIXED_LEN]

RECURSIVE FlatMap(_)
FlatMap(ss) == IF ss = <<>> THEN <<>> ELSE ss[1] \o FlatMap(Tail(ss))

\* formatter::build_messages
build_messages(rs, config, now) ==
    LET payloads == group_releases_by_chat(rs, config, now)
    IN FlatMap([p \in DOMAIN payloads |->
           chunk_lines(payloads[p].chat_id, HEADER_LEN,
                       [i \in DOMAIN payloads[p].releases |->
                            LineOf(payloads[p].releases[i])],
                       TELEGRAM_MESSAGE_LIMIT)])

\* build_empty_messages that notifies nobody
build_empty_messages_none(config) == <<>>

\* formatter::build_empty_messages: one "no releases" text per configured chat
build_empty_messages(config) ==
    [i \in DOMAIN config |->
        TelegramMessage(config[i].chat_id, "empty", EMPTY_TEXT_LEN, <<>>)]

ItemsOf(m) == Range(m.items)

(***************************************************************************)
(* Orchestrator (src/src/orchestrator.rs).                                 *)
(***************************************************************************)
\* filter_new_releases that also drops an id repeated within the fetched list
RECURSIVE filter_dedup_loop(_, _, _, _)
filter_dedup_loop(set, rs, unique_acc, dup_acc) ==
    IF rs = <<>> THEN [unique |-> unique_acc, duplicates |-> dup_acc]
    ELSE IF rs[1].id \in set
    THEN filter_dedup_loop(set, Tail(rs), unique_acc, dup_acc + 1)
    ELSE filter_dedup_loop(set \cup {rs[1].id}, Tail(rs),
                           Append(unique_acc, rs[1]), dup_acc)

filter_new_releases_dedup(set, rs) == filter_dedup_loop(set, rs, <<>>, 0)

\* Orchestrator::filter_new_releases
RECURSIVE filter_loop(_, _, _, _)
filter_loop(set, rs, unique_acc, dup_acc) ==
    IF rs = <<>> THEN [unique |-> unique_acc, duplicates |-> dup_acc]
    ELSE IF contains(set, rs[1].id)
    THEN filter_loop(set, Tail(rs), unique_acc, dup_acc + 1)
    ELSE filter_loop(set, Tail(rs), Append(unique_acc, rs[1]), dup_acc)

filter_new_releases(set, rs) == filter_loop(set, rs, <<>>, 0)

\* the grouping of Orchestrator::run: the texts of each chat, in message order
GroupByChat(msgs) ==
    IF msgs = <<>> THEN <<>>
    ELSE [c \in {msgs[i].chat_id : i \in DOMAIN msgs} |->
             SelectSeq(msgs, LAMBDA m : m.chat_id = c)]

NoSummary ==
    [fetched |-> 0, new_releases |-> 0, duplicates |-> 0, messages_sent |-> 0,
     history_appended |-> 0]

(***************************************************************************)
(* The state machine: one deployment, a bounded number of successive runs. *)
(***************************************************************************)
Entries == {"orchestrator", "pipeline", "app"}

Outcomes == {"ok", "err"}

NotRestored == [ok |-> FALSE, ids |-> {}, file |-> NoBlob]

\* what the stores may hold before the first run: nothing, a well-formed
\* ledger, or a ledger with a malformed line
RemoteInit == {NoBlob, Blob(render_file({1})), Blob(<<"1", NL, "x">>)}
LocalInit == {NoBlob, Blob(<<"2", NL>>)}

\* what a release provider may return: any list of catalog entries
FetchResults == {[i \in DOMAIN s |-> MovieRelease(s[i])] : s \in SeqsUpTo(Ids, MaxFetch)}

\* the elements of s at the positions in I, in order
RECURSIVE PickIdx(_, _, _)
PickIdx(s, I, i) ==
    IF i > Len(s) THEN <<>>
    ELSE (IF i \in I THEN <<s[i]>> ELSE <<>>) \o PickIdx(s, I, i + 1)

SubLists(s) == {PickIdx(s, I, 1) : I \in SUBSET DOMAIN s}

\* the ids of the releases named in the delivered release messages
NotifiedIds(ms) == UNION {ItemsOf(ms[i]) : i \in DOMAIN ms}

\* no earlier run failed after a delivery
NoPrev == [ledger |-> {}, releases |-> <<>>, sent |-> <<>>]

\* SentHistory::with_store and Orchestrator::new: a fresh history is empty
\* no component is exercised on its own
NoCall == [op |-> "none"]
NoSaved == [some |-> FALSE, ids |-> {}]
NoDispatcher == [chat_ids |-> {}, max_retries |-> 0, retry_delays |-> <<>>]
NoBatch == [chat_id |-> 0, messages |-> <<>>]
NotSending == [idx |-> 0, retries |-> 0]

\* no send_batch call was made
BatchIdle ==
    /\ batch = NoBatch
    /\ sending = NotSending
    /\ trace = <<>>
    /\ answered = <<>>
    /\ failed = {}
    /\ posts = 0
    /\ tgResult = "none"

\* no fetch_digital_releases call was made
NoFetch == [by |-> "none"]

\* no function was applied on its own
NoApplied == [fn |-> "none"]

FunctionsIdle == applied = NoApplied /\ racers = <<>>

FetchIdle ==
    /\ fetch = NoFetch
    /\ attempts = <<>>
    /\ tmdbResult = "none"

ComponentsIdle ==
    /\ call = NoCall
    /\ saved = NoSaved
    /\ dispatcher = NoDispatcher
    /\ BatchIdle
    /\ FetchIdle
    /\ FunctionsIdle

Init ==
    /\ entry \in Entries
    /\ run = 1
    /\ pc = "restoring"
    /\ result = "none"
    /\ ids = {}
    /\ file \in LocalInit
    /\ remote \in RemoteInit
    /\ known = {}
    /\ restored = NotRestored
    /\ releases = <<>>
    /\ unique = <<>>
    /\ duplicates = 0
    /\ messages = <<>>
    /\ grouped = <<>>
    /\ sent = <<>>
    /\ dispatched = <<>>
    /\ uploads = <<>>
    /\ persistErr = "none"
    /\ summary = NoSummary
    /\ confirmed = {}
    /\ prev = NoPrev
    /\ ComponentsIdle

\* the effect of history.restore() on the history and the local file
ApplyRestore(r) ==
    /\ ids' = r.ids
    /\ file' = r.file
    /\ restored' = [ok |-> r.ok, ids |-> r.ids, file |-> r.file]

\* the run returns err without doing anything else
Fail(err) ==
    /\ pc' = "failed"
    /\ result' = err

\* Orchestrator::run, lines 69-75: restore (a failure is only logged) and
\* preload_history
OrchRestore(dl, io) ==
    /\ entry = "orchestrator"
    /\ pc = "restoring"
    /\ LET r == restore(ids, file, remote, dl, io) IN
        /\ ApplyRestore(r)
        /\ known' = known \cup r.ids
    /\ pc' = "fetching"
    /\ UNCHANGED <<entry, run, result, remote, releases, unique, duplicates,
                   messages, grouped, sent, dispatched, uploads, persistErr,
                   summary, confirmed, prev>>
    /\ UNCHANGED componentVars

\* a fetch failure that saves the history before returning the error
OrchFetchErrSaving ==
    /\ entry = "orchestrator"
    /\ pc = "fetching"
    /\ Fail("Releases")
    /\ file' = Blob(render_file(ids))
    /\ remote' = Blob(render_file(ids))
    /\ uploads' = Append(uploads, Upload(render_file(ids)))
    /\ UNCHANGED <<entry, run, ids, known, restored, releases, unique,
                   duplicates, messages, grouped, sent, dispatched, persistErr,
                   summary, confirmed, prev>>
    /\ UNCHANGED componentVars

\* Orchestrator::run, lines 77-120, when fetch_releases fails
OrchFetchErr ==
    /\ entry = "orchestrator"
    /\ pc = "fetching"
    /\ Fail("Releases")
    /\ UNCHANGED <<entry, run, ids, file, remote, known, restored, releases,
                   unique, duplicates, messages, grouped, sent, dispatched,
                   uploads, persistErr, summary, confirmed, prev>>
    /\ UNCHANGED componentVars

\* the RunSummary of the "no releases" path
EmptySummary(dups, n) ==
    [fetched |-> dups, new_releases |-> 0, duplicates |-> dups,
     messages_sent |-> n, history_appended |-> 0]

\* Orchestrator::run, lines 77-120, when fetch_releases returns a list rs:
\* filter, then build the messages of the path taken
OrchFetchOk ==
    /\ entry = "orchestrator"
    /\ pc = "fetching"
    /\ \E rs \in FetchResults :
        /\ releases' = rs
        /\ LET f == filter_new_releases(ids, rs) IN
            /\ unique' = f.unique
            /\ duplicates' = f.duplicates
            /\ IF f.unique = <<>>
               THEN LET empty_messages == build_empty_messages(Chats) IN
                    /\ messages' = empty_messages
                    /\ grouped' = <<>>
                    /\ IF empty_messages = <<>>
                       THEN /\ pc' = "done"
                            /\ result' = "ok"
                            /\ summary' = EmptySummary(f.duplicates, 0)
                       ELSE /\ pc' = "notifying"
                            /\ UNCHANGED <<result, summary>>
               ELSE LET msgs == build_messages(convert_releases(f.unique), Chats, Now) IN
                    /\ messages' = msgs
                    /\ grouped' = GroupByChat(msgs)
                    /\ pc' = IF msgs = <<>> THEN "persisting" ELSE "dispatching"
                    /\ UNCHANGED <<result, summary>>
    /\ UNCHANGED <<entry, run, ids, file, remote, known, restored, sent,
                   dispatched, uploads, persistErr, confirmed, prev>>
    /\ UNCHANGED componentVars

\* Orchestrator::run, lines 95-107: the next "no releases" message
OrchSendEmpty(outcome) ==
    /\ entry = "orchestrator"
    /\ pc = "notifying"
    /\ IF outcome = "err"
       THEN /\ Fail("Dispatch")
            /\ UNCHANGED <<sent, summary>>
       ELSE /\ sent' = Append(sent, messages[Len(sent) + 1])
            /\ IF Len(sent) + 1 = Len(messages)
               THEN /\ pc' = "done"
                    /\ result' = "ok"
                    /\ summary' = EmptySummary(duplicates, Len(messages))
               ELSE UNCHANGED <<pc, result, summary>>
    /\ UNCHANGED <<entry, run, ids, file, remote, known, restored, releases,
                   unique, duplicates, messages, grouped, dispatched, uploads,
                   persistErr, confirmed, prev>>
    /\ UNCHANGED componentVars

\* a dispatch that records the ids of each message as soon as it is delivered
OrchDispatchEager(c, k) ==
    /\ entry = "orchestrator"
    /\ pc = "dispatching"
    /\ c \in DOMAIN grouped
    /\ k \in 0..Len(grouped[c])
    /\ sent' = sent \o SubSeq(grouped[c], 1, k)
    /\ ids' = ids \cup NotifiedIds(SubSeq(grouped[c], 1, k))
    /\ summary' = [summary EXCEPT !.messages_sent = @ + Len(grouped[c])]
    /\ IF k < Len(grouped[c])
       THEN /\ Fail("Dispatch")
            /\ UNCHANGED grouped
       ELSE /\ grouped' = IF DOMAIN grouped = {c} THEN <<>>
                           ELSE [d \in DOMAIN grouped \ {c} |-> grouped[d]]
            /\ pc' = IF DOMAIN grouped = {c} THEN "persisting" ELSE "dispatching"
            /\ UNCHANGED result
    /\ UNCHANGED <<entry, run, file, remote, known, restored, releases,
                   unique, duplicates, messages, dispatched, uploads,
                   persistErr, confirmed, prev>>
    /\ UNCHANGED componentVars

\* a dispatch that, when a send fails, appends and uploads the ids of the
\* messages delivered so far before it returns the error
OrchDispatchRecording(c, k) ==
    /\ entry = "orchestrator"
    /\ pc = "dispatching"
    /\ c \in DOMAIN grouped
    /\ k \in 0..Len(grouped[c])
    /\ sent' = sent \o SubSeq(grouped[c], 1, k)
    /\ summary' = [summary EXCEPT !.messages_sent = @ + Len(grouped[c])]
    /\ IF k < Len(grouped[c])
       THEN /\ Fail("Dispatch")
            /\ ids' = ids \cup NotifiedIds(sent')
            /\ file' = Blob(render_file(ids'))
            /\ remote' = Blob(render_file(ids'))
            /\ uploads' = Append(uploads, Upload(render_file(ids')))
            /\ UNCHANGED grouped
       ELSE /\ grouped' = IF DOMAIN grouped = {c} THEN <<>>
                           ELSE [d \in DOMAIN grouped \ {c} |-> grouped[d]]
            /\ pc' = IF DOMAIN grouped = {c} THEN "persisting" ELSE "dispatching"
            /\ UNCHANGED <<result, ids, file, remote, uploads>>
    /\ UNCHANGED <<entry, run, known, restored, releases, unique, duplicates,
                   messages, dispatched, persistErr, confirmed, prev>>
    /\ UNCHANGED componentVars

\* a dispatch that appends and uploads the ids of a chat as soon as its
\* messages are delivered, before the other chats are served
OrchDispatchPersisting(c, k) ==
    /\ entry = "orchestrator"
    /\ pc = "dispatching"
    /\ c \in DOMAIN grouped
    /\ k \in 0..Len(grouped[c])
    /\ sent' = sent \o SubSeq(grouped[c], 1, k)
    /\ summary' = [summary EXCEPT !.messages_sent = @ + Len(grouped[c])]
    /\ IF k < Len(grouped[c])
       THEN /\ Fail("Dispatch")
            /\ UNCHANGED <<grouped, ids, file, remote, uploads>>
       ELSE /\ grouped' = IF DOMAIN grouped = {c} THEN <<>>
                           ELSE [d \in DOMAIN grouped \ {c} |-> grouped[d]]
            /\ pc' = IF DOMAIN grouped = {c} THEN "persisting" ELSE "dispatching"
            /\ ids' = ids \cup NotifiedIds(grouped[c])
            /\ file' = Blob(render_file(ids'))
            /\ remote' = Blob(render_file(ids'))
            /\ uploads' = Append(uploads, Upload(render_file(ids')))
            /\ UNCHANGED result
    /\ UNCHANGED <<entry, run, known, restored, releases, unique, duplicates,
                   messages, dispatched, persistErr, confirmed, prev>>
    /\ UNCHANGED componentVars

\* Orchestrator::run, lines 122-129: send_messages for one chat of the map,
\* of whose messages the first k are delivered
OrchDispatch(c, k) ==
    /\ entry = "orchestrator"
    /\ pc = "dispatching"
    /\ c \in DOMAIN grouped
    /\ k \in 0..Len(grouped[c])
    /\ sent' = sent \o SubSeq(grouped[c], 1, k)
    /\ summary' = [summary EXCEPT !.messages_sent = @ + Len(grouped[c])]
    /\ IF k < Len(grouped[c])
       THEN /\ Fail("Dispatch")
            /\ UNCHANGED grouped
       ELSE /\ grouped' = IF DOMAIN grouped = {c} THEN <<>>
                           ELSE [d \in DOMAIN grouped \ {c} |-> grouped[d]]
            /\ pc' = IF DOMAIN grouped = {c} THEN "persisting" ELSE "dispatching"
            /\ UNCHANGED result
    /\ UNCHANGED <<entry, run, ids, file, remote, known, restored, releases,
                   unique, duplicates, messages, dispatched, uploads,
                   persistErr, confirmed, prev>>
    /\ UNCHANGED componentVars

\* the effect of history.persist() on the stores
ApplyPersist(p) ==
    /\ file' = p.file
    /\ remote' = p.remote
    /\ uploads' = p.uploads
    /\ persistErr' = p.err

\* Orchestrator::run, lines 131-149: append, persist (a failure is only
\* logged) and the summary
OrchPersist(io, up) ==
    /\ entry = "orchestrator"
    /\ pc = "persisting"
    /\ LET a == append(ids, IdsOf(unique)) IN
        /\ ids' = a.ids
        /\ IF a.inserted > 0
           THEN ApplyPersist(persist(a.ids, file, remote, uploads, io, up))
           ELSE UNCHANGED <<file, remote, uploads, persistErr>>
        /\ summary' = [fetched |-> Len(unique) + duplicates,
                       new_releases |-> Len(unique),
                       duplicates |-> duplicates,
                       messages_sent |-> summary.messages_sent,
                       history_appended |-> a.inserted]
    /\ pc' = "done"
    /\ result' = "ok"
    /\ UNCHANGED <<entry, run, known, restored, releases, unique, duplicates,
                   messages, grouped, sent, dispatched, confirmed, prev>>
    /\ UNCHANGED componentVars

(***************************************************************************)
(* main::run_pipeline (src/src/main.rs).                                   *)
(***************************************************************************)
\* run_pipeline, line 108: restore_history(history)?
PipelineRestore(dl, io) ==
    /\ entry = "pipeline"
    /\ pc = "restoring"
    /\ LET r == restore(ids, file, remote, dl, io) IN
        /\ ApplyRestore(r)
        /\ known' = IF r.ok THEN r.ids ELSE known
        /\ IF r.ok THEN pc' = "fetching" /\ UNCHANGED result
                   ELSE Fail("State")
    /\ UNCHANGED <<entry, run, remote, releases, unique, duplicates, messages,
                   grouped, sent, dispatched, uploads, persistErr, summary,
                   confirmed, prev>>
    /\ UNCHANGED componentVars

\* run_pipeline, line 109, when the fetcher fails
PipelineFetchErr ==
    /\ entry = "pipeline"
    /\ pc = "fetching"
    /\ Fail("Source")
    /\ UNCHANGED <<entry, run, ids, file, remote, known, restored, releases,
                   unique, duplicates, messages, grouped, sent, dispatched,
                   uploads, persistErr, summary, confirmed, prev>>
    /\ UNCHANGED componentVars

\* run_pipeline, lines 109-114: fetch_updates, prepare_payloads and the
\* return when there is nothing to send
PipelineFetchOk ==
    /\ entry = "pipeline"
    /\ pc = "fetching"
    /\ \E rs \in FetchResults :
        /\ releases' = rs
        /\ LET msgs == build_messages(convert_releases(rs), Chats, Now) IN
            /\ messages' = msgs
            /\ IF msgs = <<>>
               THEN pc' = "done" /\ result' = "ok"
               ELSE pc' = "dispatching" /\ UNCHANGED result
    /\ UNCHANGED <<entry, run, ids, file, remote, known, restored, unique,
                   duplicates, grouped, sent, dispatched, uploads, persistErr,
                   summary, confirmed, prev>>
    /\ UNCHANGED componentVars

\* run_pipeline, line 116, and MessageDispatcher for TelegramDispatcher,
\* lines 72-78: the next message, one send_batch each
PipelineSend(outcome) ==
    /\ entry = "pipeline"
    /\ pc = "dispatching"
    /\ IF outcome = "err"
       THEN Fail("Telegram") /\ UNCHANGED sent
       ELSE /\ sent' = Append(sent, messages[Len(sent) + 1])
            /\ pc' = IF Len(sent) + 1 = Len(messages) THEN "persisting"
                     ELSE "dispatching"
            /\ UNCHANGED result
    /\ UNCHANGED <<entry, run, ids, file, remote, known, restored, releases,
                   unique, duplicates, messages, grouped, dispatched, uploads,
                   persistErr, summary, confirmed, prev>>
    /\ UNCHANGED componentVars

\* main::persist_history, lines 150-158: append every fetched id, persist()?
PipelinePersist(io, up) ==
    /\ entry = "pipeline"
    /\ pc = "persisting"
    /\ LET a == append(ids, IdsOf(releases))
           p == persist(a.ids, file, remote, uploads, io, up)
       IN /\ ids' = a.ids
          /\ ApplyPersist(p)
          /\ IF p.err = "none" THEN pc' = "done" /\ result' = "ok"
             ELSE Fail("State")
    /\ UNCHANGED <<entry, run, known, restored, releases, unique, duplicates,
                   messages, grouped, sent, dispatched, summary, confirmed, prev>>
    /\ UNCHANGED componentVars

(***************************************************************************)
(* app (src/src/app.rs).                                                   *)
(***************************************************************************)
\* app::restore_history, lines 97-102: history.restore()?
AppRestore(dl, io) ==
    /\ entry = "app"
    /\ pc = "restoring"
    /\ LET r == restore(ids, file, remote, dl, io) IN
        /\ ApplyRestore(r)
        /\ IF r.ok THEN pc' = "fetching" /\ UNCHANGED result
                   ELSE Fail("State")
    /\ UNCHANGED <<entry, run, remote, known, releases, unique, duplicates,
                   messages, grouped, sent, dispatched, uploads, persistErr,
                   summary, confirmed, prev>>
    /\ UNCHANGED componentVars

\* app::fetch_releases, lines 63-72, when the catalog fetch fails
AppFetchErr ==
    /\ entry = "app"
    /\ pc = "fetching"
    /\ known' = ids
    /\ Fail("Tmdb")
    /\ UNCHANGED <<entry, run, ids, file, remote, restored, releases, unique,
                   duplicates, messages, grouped, sent, dispatched, uploads,
                   persistErr, summary, confirmed, prev>>
    /\ UNCHANGED componentVars

\* app::fetch_releases, lines 63-72: a TmdbClient built over the history
\* returns no release whose id the history holds
AppFetchOk ==
    /\ entry = "app"
    /\ pc = "fetching"
    /\ \E rs \in FetchResults :
        /\ known' = ids
        /\ \A i \in DOMAIN rs : rs[i].id \notin ids
        /\ releases' = rs
        /\ pc' = "dispatching"
    /\ UNCHANGED <<entry, run, result, ids, file, remote, restored, unique,
                   duplicates, messages, grouped, sent, dispatched, uploads,
                   persistErr, summary, confirmed, prev>>
    /\ UNCHANGED componentVars

\* app::dispatch_and_persist, line 79, when dispatch fails
AppDispatchErr ==
    /\ entry = "app"
    /\ pc = "dispatching"
    /\ Fail("Dispatch")
    /\ UNCHANGED <<entry, run, ids, file, remote, known, restored, releases,
                   unique, duplicates, messages, grouped, sent, dispatched,
                   uploads, persistErr, summary, confirmed, prev>>
    /\ UNCHANGED componentVars

\* app::dispatch_and_persist, line 79: dispatch returns the releases it
\* delivered
AppDispatchOk ==
    /\ entry = "app"
    /\ pc = "dispatching"
    /\ \E delivered \in SubLists(releases) : dispatched' = delivered
    /\ pc' = "persisting"
    /\ UNCHANGED <<entry, run, result, ids, file, remote, known, restored,
                   releases, unique, duplicates, messages, grouped, sent,
                   uploads, persistErr, summary, confirmed, prev>>
    /\ UNCHANGED componentVars

\* dispatch_and_persist that hands the offered releases to persist_history
AppPersistOffered(io, up) ==
    /\ entry = "app"
    /\ pc = "persisting"
    /\ IF releases = <<>>
       THEN /\ pc' = "done"
            /\ result' = "ok"
            /\ summary' = [summary EXCEPT !.history_appended = 0]
            /\ UNCHANGED <<ids, file, remote, uploads, persistErr>>
       ELSE LET a == append(ids, IdsOf(releases))
                p == persist(a.ids, file, remote, uploads, io, up)
            IN /\ ids' = a.ids
               /\ ApplyPersist(p)
               /\ IF p.err = "none"
                  THEN /\ pc' = "done"
                       /\ result' = "ok"
                       /\ summary' = [summary EXCEPT !.history_appended = a.inserted]
                  ELSE Fail("State") /\ UNCHANGED summary
    /\ UNCHANGED <<entry, run, known, restored, releases, unique, duplicates,
                   messages, grouped, sent, dispatched, confirmed, prev>>
    /\ UNCHANGED componentVars

\* app::persist_history, lines 83-95
AppPersist(io, up) ==
    /\ entry = "app"
    /\ pc = "persisting"
    /\ IF dispatched = <<>>
       THEN /\ pc' = "done"
            /\ result' = "ok"
            /\ summary' = [summary EXCEPT !.history_appended = 0]
            /\ UNCHANGED <<ids, file, remote, uploads, persistErr>>
       ELSE LET a == append(ids, IdsOf(dispatched))
                p == persist(a.ids, file, remote, uploads, io, up)
            IN /\ ids' = a.ids
               /\ ApplyPersist(p)
               /\ IF p.err = "none"
                  THEN /\ pc' = "done"
                       /\ result' = "ok"
                       /\ summary' = [summary EXCEPT !.history_appended = a.inserted]
                  ELSE Fail("State") /\ UNCHANGED summary
    /\ UNCHANGED <<entry, run, known, restored, releases, unique, duplicates,
                   messages, grouped, sent, dispatched, confirmed, prev>>
    /\ UNCHANGED componentVars

(***************************************************************************)
(* The next invocation of the job: a new process with a freshly built      *)
(* history; the local file survives or not (no disk is guaranteed between  *)
(* runs), the remote artifact stays.                                       *)
(***************************************************************************)
ResetRun(keep) ==
    /\ pc \in {"done", "failed"}
    /\ run < MaxRuns
    /\ run' = run + 1
    /\ pc' = "restoring"
    /\ result' = "none"
    /\ ids' = {}
    /\ file' = IF keep THEN file ELSE NoBlob
    /\ known' = {}
    /\ restored' = NotRestored
    /\ releases' = <<>>
    /\ unique' = <<>>
    /\ duplicates' = 0
    /\ messages' = <<>>
    /\ grouped' = <<>>
    /\ sent' = <<>>
    /\ dispatched' = <<>>
    /\ uploads' = <<>>
    /\ persistErr' = "none"
    /\ summary' = NoSummary
    /\ confirmed' = IF result = "ok" THEN confirmed \cup NotifiedIds(sent)
                    ELSE confirmed
    /\ UNCHANGED <<entry, remote>>
    /\ UNCHANGED componentVars

\* the next invocation, of which nothing is remembered but what is stored
NewRun(keep) ==
    /\ ResetRun(keep)
    /\ UNCHANGED prev

Next ==
    \/ \E dl \in Outcomes, io \in Outcomes : OrchRestore(dl, io)
    \/ OrchFetchErr
    \/ OrchFetchOk
    \/ \E outcome \in Outcomes : OrchSendEmpty(outcome)
    \/ \E c \in ChatIds, k \in 0..(MaxFetch + 1) : OrchDispatch(c, k)
    \/ \E io \in Outcomes, up \in Outcomes : OrchPersist(io, up)
    \/ \E dl \in Outcomes, io \in Outcomes : PipelineRestore(dl, io)
    \/ PipelineFetchErr
    \/ PipelineFetchOk
    \/ \E outcome \in Outcomes : PipelineSend(outcome)
    \/ \E io \in Outcomes, up \in Outcomes : PipelinePersist(io, up)
    \/ \E dl \in Outcomes, io \in Outcomes : AppRestore(dl, io)
    \/ AppFetchErr
    \/ AppFetchOk
    \/ AppDispatchErr
    \/ AppDispatchOk
    \/ \E io \in Outcomes, up \in Outcomes : AppPersist(io, up)
    \/ \E keep \in BOOLEAN : NewRun(keep)

Spec == Init /\ [][Next]_vars

(***************************************************************************)
(* Properties.                                                             *)
(***************************************************************************)
\* the run of Orchestrator::run is over, or past the fetch
OrchFetched ==
    /\ entry = "orchestrator"
    /\ pc \in {"notifying", "dispatching", "persisting", "done", "failed"}
    /\ result # "Releases"

OrchEnded == entry = "orchestrator" /\ pc \in {"done", "failed"}

NewIds == Range(IdsOf(unique))

Delivered(m) == m \in Range(sent)

\* the ids a stored blob holds; a malformed blob holds no usable ledger
StoredIds(b) ==
    IF ~b.present \/ b.bytes = <<>> THEN {}
    ELSE LET p == parse_lines(lines(b.bytes), {}) IN IF p.ok THEN p.ids ELSE {}

\* C1: at the end of a run of Orchestrator::run, a new item id has been added
\* to the ledger if and only if every message containing that id was delivered
\* in that run.
C1_AddedIffAllDelivered ==
    OrchEnded =>
        \A id \in NewIds :
            (id \in ids \ restored.ids)
                <=> (\A i \in DOMAIN messages :
                        id \in ItemsOf(messages[i]) => Delivered(messages[i]))

\* C2: when dispatch fails in a run (of any of the three entry points), no id
\* has been appended to the ledger, the local history file holds what it held
\* when dispatch began, and nothing was uploaded in that run.
C2_DispatchFailureLeavesHistory ==
    (pc = "failed" /\ result \in {"Dispatch", "Telegram"}) =>
        /\ ids = restored.ids
        /\ file = restored.file
        /\ uploads = <<>>

C2_Witness ==
    /\ entry = "orchestrator"
    /\ pc = "failed"
    /\ result = "Dispatch"
    /\ sent # <<>>
    /\ unique # <<>>
    /\ restored.ids # {}

\* C3: no run of Orchestrator::run delivers a message containing an id that an
\* earlier run delivered before returning success.
C3_NoRepeatedNotification ==
    entry = "orchestrator" =>
        \A i \in DOMAIN sent : ItemsOf(sent[i]) \cap confirmed = {}

\* C4: when the fetch of Orchestrator::run fails, the run has returned the
\* error, no message was sent, no id was appended and nothing was written to
\* the local file or uploaded.
C4_FetchFailureAborts ==
    result = "Releases" =>
        /\ pc = "failed"
        /\ sent = <<>>
        /\ messages = <<>>
        /\ ids = restored.ids
        /\ file = restored.file
        /\ uploads = <<>>

C4_Witness ==
    /\ entry = "orchestrator"
    /\ result = "Releases"
    /\ restored.ok
    /\ restored.ids # {}

\* C5: after a failed restore Orchestrator::run is not aborted: it goes on to
\* the fetch with an empty ledger, so that every fetched release is new.
C5_RestoreFailureContinuesEmpty ==
    (entry = "orchestrator" /\ pc # "restoring" /\ ~restored.ok) =>
        /\ result # "State"
        /\ restored.ids = {}
        /\ known = {}
        /\ pc = "fetching" => ids = {}
        /\ OrchFetched => (unique = releases /\ duplicates = 0)

C5_Witness ==
    /\ entry = "orchestrator"
    /\ ~restored.ok
    /\ remote.present
    /\ pc = "done"
    /\ unique # <<>>
    /\ sent # <<>>

\* C6: a run in which persist() failed does not return success.
C6_PersistFailurePropagates ==
    persistErr # "none" => result # "ok"

\* C7 (as stated): the ledger never shrinks: no step removes an id from the
\* in-memory set within a run, or from the persisted (remote) set.
C7_LedgerNeverShrinks ==
    [][/\ run' = run => ids \subseteq ids'
       /\ StoredIds(remote) \subseteq StoredIds(remote')]_vars

\* C7 (amended): once restore has returned, the in-memory set never shrinks
\* within the run, and in a run whose restore succeeded no step removes an id
\* from the persisted (remote) set.
C7_LedgerGrowsAfterRestore ==
    [][/\ (pc # "restoring" /\ run' = run) => ids \subseteq ids'
       /\ restored.ok => StoredIds(remote) \subseteq StoredIds(remote')]_vars

C7_Witness ==
    /\ restored.ok
    /\ restored.ids # {}
    /\ uploads # <<>>
    /\ ids # restored.ids
    /\ StoredIds(remote) = ids

\* Orchestrator::run took the "no releases" path
EmptyPath == OrchFetched /\ unique = <<>>

\* C8: when Orchestrator::run finds no new item it sends the "no releases"
\* messages, one per configured chat in order, and no release message; it
\* appends nothing and persists nothing.
C8_NoReleasesPath ==
    EmptyPath =>
        /\ pc \in {"notifying", "done", "failed"}
        /\ Len(sent) <= Len(Chats)
        /\ \A i \in DOMAIN sent :
              sent[i].kind = "empty" /\ sent[i].chat_id = Chats[i].chat_id
        /\ result = "ok" =>
              /\ Len(sent) = Len(Chats)
              /\ summary.new_releases = 0
              /\ summary.history_appended = 0
        /\ ids = restored.ids
        /\ file = restored.file
        /\ uploads = <<>>
        /\ persistErr = "none"

C8_Witness ==
    /\ EmptyPath
    /\ pc = "done"
    /\ duplicates > 0
    /\ sent # <<>>

\* C9: filter_new_releases splits the fetched releases by ledger membership:
\* the new list is the fetched releases whose id is not in the ledger, in fetch
\* order, the duplicate count is the number of fetched releases whose id is in
\* the ledger, and the two add up to the number fetched.
C9_FilterPartitions ==
    OrchFetched =>
        /\ unique = SelectSeq(releases, LAMBDA r : r.id \notin restored.ids)
        /\ duplicates =
              Cardinality({i \in DOMAIN releases : releases[i].id \in restored.ids})
        /\ Len(unique) + duplicates = Len(releases)

C9_Witness ==
    /\ OrchFetched
    /\ unique # <<>>
    /\ duplicates > 0

\* C10: after a successful Orchestrator::run with at least one new item the
\* ledger is the restored ledger united with the new ids, the summary adds up,
\* history_appended is the number of ids added, and the persisted blob is the
\* resulting ids, ascending, separated by newlines.
C10_SuccessfulRunPersists ==
    (entry = "orchestrator" /\ pc = "done" /\ result = "ok" /\ unique # <<>>) =>
        /\ ids = restored.ids \cup NewIds
        /\ summary.fetched = summary.new_releases + summary.duplicates
        /\ summary.fetched = Len(releases)
        /\ summary.history_appended = Cardinality(ids \ restored.ids)
        /\ remote = Blob(render_file(ids))
        /\ file = Blob(render_file(ids))

(***************************************************************************)
(* SentHistory on its own: any sequence of calls on a SentHistory over     *)
(* stores that hold what was written to them.                              *)
(***************************************************************************)
\* the variables of the runs, which no call on a component alone changes
pipelineVars == <<entry, run, pc, result, known, restored, releases, unique,
                  duplicates, messages, grouped, sent, dispatched, persistErr,
                  summary, confirmed, prev>>

PipelineIdle ==
    /\ entry = "none"
    /\ run = 0
    /\ pc = "idle"
    /\ result = "none"
    /\ known = {}
    /\ restored = NotRestored
    /\ releases = <<>>
    /\ unique = <<>>
    /\ duplicates = 0
    /\ messages = <<>>
    /\ grouped = <<>>
    /\ sent = <<>>
    /\ dispatched = <<>>
    /\ persistErr = "none"
    /\ summary = NoSummary
    /\ confirmed = {}
    /\ prev = NoPrev

\* the ids the calls are made with: the smallest MovieIds and the largest
LedgerIds == {0, 1, MOVIE_ID_MAX}

\* what a store may hold before the first call: nothing, an empty blob, ids
\* with blanks, an empty line, a sign and leading zeros, the largest id, a
\* malformed line after a well-formed one, an id that does not fit the width
LedgerBlobs ==
    {NoBlob,
     Blob(<<>>),
     Blob(<<SP, "1", SP, NL, NL, PLUS, "0", "0", NL>>),
     Blob(to_string(MOVIE_ID_MAX)),
     Blob(<<"1", NL, "x", NL, "0">>),
     Blob(<<"1", NL>> \o to_string(MOVIE_ID_MAX + 1))}

LedgerInit ==
    /\ PipelineIdle
    /\ ids = {}
    /\ file \in LedgerBlobs
    /\ remote \in LedgerBlobs
    /\ uploads = <<>>
    /\ call = [op |-> "with_store"]
    /\ saved = NoSaved
    /\ dispatcher = NoDispatcher
    /\ BatchIdle
    /\ FetchIdle
    /\ FunctionsIdle

\* SentHistory::with_store: a new SentHistory over the same stores
LedgerWithStore ==
    /\ ids' = {}
    /\ uploads' = <<>>
    /\ call' = [op |-> "with_store"]
    /\ UNCHANGED <<pipelineVars, telegramVars, tmdbVars, functionVars, file, remote, saved>>

\* history.append(new_ids); again tells that the call before was the same
LedgerAppend ==
    /\ \E new_ids \in SeqsUpTo(LedgerIds, MaxAppend) :
        LET a == append(ids, new_ids) IN
        /\ ids' = a.ids
        /\ call' = [op |-> "append", new_ids |-> new_ids, ret |-> a.inserted,
                    again |-> call.op = "append" /\ call.new_ids = new_ids]
    /\ uploads' = <<>>
    /\ UNCHANGED <<pipelineVars, telegramVars, tmdbVars, functionVars, file, remote, saved>>

\* history.restore(), for each outcome of the download and of the file system
LedgerRestore ==
    /\ \E dl \in Outcomes, io \in Outcomes :
        LET r == restore(ids, file, remote, dl, io) IN
        /\ ids' = r.ids
        /\ file' = r.file
        /\ call' = [op |-> "restore", dl |-> dl, io |-> io,
                    ret |-> IF r.ok THEN "ok" ELSE "err"]
    /\ uploads' = <<>>
    /\ UNCHANGED <<pipelineVars, telegramVars, tmdbVars, functionVars, remote, saved>>

\* history.persist(), for each outcome of the local write and of the upload
\* ("none" when upload_artifact was not called); uploads holds what this call
\* uploaded
LedgerPersist ==
    /\ \E io \in Outcomes, up \in Outcomes :
        LET p == persist(ids, file, remote, <<>>, io, up) IN
        /\ file' = p.file
        /\ remote' = p.remote
        /\ uploads' = p.uploads
        /\ saved' = IF p.err = "none" THEN [some |-> TRUE, ids |-> ids]
                    ELSE saved
        /\ call' = [op |-> "persist", io |-> io,
                    up |-> IF p.upload_calls = 0 THEN "none" ELSE up,
                    ret |-> IF p.err = "none" THEN "ok" ELSE "err",
                    upload_calls |-> p.upload_calls]
    /\ UNCHANGED <<pipelineVars, telegramVars, tmdbVars, functionVars, ids>>

LedgerNext ==
    \/ LedgerWithStore
    \/ LedgerAppend
    \/ LedgerRestore
    \/ LedgerPersist

SpecLedger == LedgerInit /\ [][LedgerNext]_vars

(***************************************************************************)
(* Properties of SentHistory.                                              *)
(***************************************************************************)
\* a text without its leading zeros, the last digit kept
RECURSIVE StripZeros(_)
StripZeros(t) ==
    IF Len(t) > 1 /\ t[1] = "0" THEN StripZeros(Tail(t)) ELSE t

\* the text t is a decimal numeral of the MovieId v: an optional sign, then
\* digits
Denotes(t, v) ==
    LET d == IF t # <<>> /\ t[1] = PLUS THEN Tail(t) ELSE t
    IN d # <<>> /\ StripZeros(d) = to_string(v)

\* the lines of the bytes that are not blank, trimmed
NonBlankLines(bytes) ==
    LET ls == lines(bytes)
    IN {trim(ls[i]) : i \in {j \in DOMAIN ls : trim(ls[j]) # <<>>}}

\* every non-blank line is a decimal numeral of a MovieId
WellFormed(bytes) ==
    \A t \in NonBlankLines(bytes) : \E v \in 0..MOVIE_ID_MAX : Denotes(t, v)

\* the MovieIds the lines of the bytes denote
LineIds(bytes) ==
    {v \in 0..MOVIE_ID_MAX : \E t \in NonBlankLines(bytes) : Denotes(t, v)}

\* the bytes are the ids of the set, each once, ascending, as decimal
\* numbers separated by single newlines
FullAscending(bytes, set) ==
    LET ls == lines(bytes) IN
    /\ bytes = join(ls)
    /\ Len(ls) = Cardinality(set)
    /\ \A i \in DOMAIN ls : \E v \in set : ls[i] = to_string(v)
    /\ \A i, j \in DOMAIN ls :
          i < j => \E v, w \in set :
                      /\ v < w
                      /\ ls[i] = to_string(v)
                      /\ ls[j] = to_string(w)

\* C11: contains(id) is true right after append([.., id, ..]), and a
\* restore() that follows a successful persist() of the set S, over stores
\* that return what was written, succeeds and yields exactly S.
C11_RoundTrip ==
    /\ call.op = "append" =>
          \A i \in DOMAIN call.new_ids : contains(ids, call.new_ids[i])
    /\ (call.op = "restore" /\ call.dl = "ok" /\ call.io = "ok" /\ saved.some) =>
          /\ call.ret = "ok"
          /\ ids = saved.ids
          /\ \A id \in LedgerIds : contains(ids, id) <=> id \in saved.ids

C11_Witness ==
    /\ call.op = "restore"
    /\ call.ret = "ok"
    /\ saved.some
    /\ saved.ids = {0, MOVIE_ID_MAX}
    /\ ids = saved.ids

\* C12: append(new_ids) leaves the ledger united with the given ids and
\* returns the growth of the set size: the number of distinct given ids the
\* ledger lacked.
C12_AppendCountsNew ==
    [][call'.op = "append" =>
          /\ ids' = ids \cup Range(call'.new_ids)
          /\ call'.ret = Cardinality(ids') - Cardinality(ids)
          /\ call'.ret = Cardinality(Range(call'.new_ids) \ ids)]_vars

C12_Witness ==
    /\ call.op = "append"
    /\ Len(call.new_ids) = 2
    /\ call.new_ids[1] = call.new_ids[2]
    /\ call.ret = 1
    /\ Cardinality(ids) = 2

\* C13: an append that repeats the append just made, with the same ids,
\* leaves the ledger as it is and returns 0.
C13_AppendIdempotent ==
    [][(call.op = "append" /\ call'.op = "append"
            /\ call'.new_ids = call.new_ids) =>
          /\ ids' = ids
          /\ call'.ret = 0]_vars

C13_Witness ==
    /\ call.op = "append"
    /\ call.again
    /\ Len(call.new_ids) = 2
    /\ call.new_ids[1] # call.new_ids[2]
    /\ call.ret = 0

\* C14: when the download returns a blob and the local write succeeds,
\* restore() overwrites the local file with the remote bytes whatever the
\* file held, and makes the set exactly the ids of the remote bytes (none
\* for an empty blob) when they are well formed.
C14_RestorePrefersRemote ==
    [][(call'.op = "restore" /\ call'.dl = "ok" /\ call'.io = "ok"
            /\ remote.present) =>
          /\ file' = Blob(remote.bytes)
          /\ remote.bytes = <<>> => (call'.ret = "ok" /\ ids' = {})
          /\ WellFormed(remote.bytes) =>
                (call'.ret = "ok" /\ ids' = LineIds(remote.bytes))]_vars

C14_Witness ==
    /\ call.op = "restore"
    /\ call.ret = "ok"
    /\ remote = Blob(<<SP, "1", SP, NL, NL, PLUS, "0", "0", NL>>)
    /\ file = remote
    /\ ids = {0, 1}

\* C15: when the download reports that there is no blob, restore() makes the
\* set the ids of the local file if the file exists (and can be read and is
\* well formed), and otherwise succeeds leaving the set as it was, empty for
\* a new SentHistory; it writes neither the local file nor the remote store.
C15_RestoreFallsBackToLocal ==
    [][(call'.op = "restore" /\ call'.dl = "ok" /\ ~remote.present) =>
          /\ (file.present /\ call'.io = "ok" /\ WellFormed(file.bytes)) =>
                (call'.ret = "ok" /\ ids' = LineIds(file.bytes))
          /\ ~file.present => (call'.ret = "ok" /\ ids' = ids)
          /\ file' = file
          /\ remote' = remote
          /\ uploads' = <<>>]_vars

C15_Witness ==
    /\ call.op = "restore"
    /\ call.ret = "ok"
    /\ ~remote.present
    /\ file = Blob(<<SP, "1", SP, NL, NL, PLUS, "0", "0", NL>>)
    /\ ids = {0, 1}

\* the bytes restore() parses: the remote blob, or the local file when there
\* is no blob
RestoreSource == IF remote.present THEN remote ELSE file

\* C16: when a non-blank line of the bytes being restored is no decimal
\* MovieId, restore() returns an error and leaves the set exactly as it was.
C16_MalformedLineAbortsRestore ==
    [][(call'.op = "restore" /\ call'.dl = "ok" /\ call'.io = "ok"
            /\ RestoreSource.present /\ ~WellFormed(RestoreSource.bytes)) =>
          /\ call'.ret = "err"
          /\ ids' = ids]_vars

C16_Witness ==
    /\ call.op = "restore"
    /\ call.dl = "ok"
    /\ call.io = "ok"
    /\ call.ret = "err"
    /\ remote = Blob(<<"1", NL, "x", NL, "0">>)
    /\ ids = {MOVIE_ID_MAX}

\* C17: a successful persist() writes the same bytes to the local file and to
\* the remote store, under the configured artifact name: all ids of the set,
\* each once, ascending, decimal, separated by newlines.
C17_PersistWritesFullSet ==
    [][(call'.op = "persist" /\ call'.ret = "ok") =>
          /\ file'.present
          /\ remote' = file'
          /\ FullAscending(file'.bytes, ids)
          /\ Len(uploads') = 1
          /\ uploads'[1].artifact_name = HISTORY_ARTIFACT_NAME
          /\ uploads'[1].content = file'.bytes
          /\ ids' = ids]_vars

C17_Witness ==
    /\ call.op = "persist"
    /\ call.ret = "ok"
    /\ ids = {0, 1, MOVIE_ID_MAX}
    /\ remote = Blob(<<"0", NL, "1", NL>> \o to_string(MOVIE_ID_MAX))

\* C18: persist() writes the local file before it uploads: when the upload
\* fails it returns the error with the local file holding the full set and
\* the remote blob as it was; when the local write fails it returns the error
\* without calling upload_artifact.
C18_LocalWriteBeforeUpload ==
    [][call'.op = "persist" =>
          /\ (call'.io = "ok" /\ call'.up = "err") =>
                /\ call'.ret = "err"
                /\ file'.present
                /\ FullAscending(file'.bytes, ids)
                /\ remote' = remote
                /\ uploads' = <<>>
          /\ call'.io = "err" =>
                /\ call'.ret = "err"
                /\ call'.upload_calls = 0
                /\ remote' = remote
                /\ uploads' = <<>>]_vars

C18_Witness ==
    /\ call.op = "persist"
    /\ call.io = "ok"
    /\ call.up = "err"
    /\ call.ret = "err"
    /\ ids = {1, MOVIE_ID_MAX}
    /\ file = Blob(<<"1", NL>> \o to_string(MOVIE_ID_MAX))
    /\ remote = NoBlob

(***************************************************************************)
(* TelegramDispatcher (src/src/telegram/mod.rs) on its own: one send_batch *)
(* call against a transport that may answer anything.                      *)
(***************************************************************************)
DEFAULT_RETRY_DELAYS == <<5, 15, 30>>
TOO_MANY_REQUESTS == 429

\* StatusCode::is_success, StatusCode::is_server_error
is_success(status) == status \in 200..299
is_server_error(status) == status \in 500..599

\* a response body: whether it is JSON, whether it has "parameters" and the
\* "retry_after" in them, -1 when there is none
Body(json, parameters, retry_after) ==
    [json |-> json, parameters |-> parameters, retry_after |-> retry_after]
NoJson == Body(FALSE, FALSE, -1)
Bodies ==
    {NoJson, Body(TRUE, FALSE, -1), Body(TRUE, TRUE, -1), Body(TRUE, TRUE, 7)}

\* parse_retry_after that never finds a hint
parse_retry_after_none(body) == [some |-> FALSE, secs |-> 0]

\* parse_retry_after: the hint in seconds, if the body is JSON that carries
\* parameters.retry_after
parse_retry_after(body) ==
    IF body.json /\ body.parameters /\ body.retry_after >= 0
    THEN [some |-> TRUE, secs |-> body.retry_after]
    ELSE [some |-> FALSE, secs |-> 0]

\* TelegramDispatcherBuilder::retry_delays: an empty schedule becomes one
\* delay of a second
retry_delays(delays) == IF delays = <<>> THEN <<1>> ELSE delays

\* the schedule is not clamped: past its end the fallback of a second
retry_delay_for_unclamped(d, attempt) ==
    IF attempt + 1 \in DOMAIN d.retry_delays THEN d.retry_delays[attempt + 1]
    ELSE 1

\* TelegramDispatcher::retry_delay_for
retry_delay_for(d, attempt) ==
    IF attempt + 1 \in DOMAIN d.retry_delays THEN d.retry_delays[attempt + 1]
    ELSE IF d.retry_delays # <<>> THEN d.retry_delays[Len(d.retry_delays)]
    ELSE 1

\* the dispatchers build() may return: the chats of the configuration, any
\* max_retries, the default schedule, a schedule of one delay or the one the
\* builder makes of an empty one
Dispatchers ==
    {[chat_ids |-> ChatIds, max_retries |-> m, retry_delays |-> ds] :
        m \in 0..MaxRetries,
        ds \in {DEFAULT_RETRY_DELAYS, retry_delays(<<4>>), retry_delays(<<>>)}}

\* the chat ids send_batch is called with: a configured one and an unknown one
BatchChats == {Chats[1].chat_id, 999}

\* the messages a batch may hold: blank ones, and ones to be trimmed
Texts == {<<SP>>, <<"a">>, <<SP, "b", SP>>}

\* what post_json may return: a transport failure or a response
TransportError == [error |-> TRUE, status |-> 0, body |-> NoJson]
Response(status, body) == [error |-> FALSE, status |-> status, body |-> body]
Responses ==
    {TransportError, Response(200, NoJson), Response(400, NoJson),
     Response(500, NoJson), Response(503, Body(TRUE, TRUE, 7))}
        \cup {Response(TOO_MANY_REQUESTS, b) : b \in Bodies}

\* send_batch does not skip the messages that are empty once trimmed
next_message_every(msgs, i) == i

\* the loop of send_batch from message i on: the index of the next message
\* that is not empty once trimmed, past the end when there is none
RECURSIVE next_message(_, _)
next_message(msgs, i) ==
    IF i > Len(msgs) THEN i
    ELSE IF trim(msgs[i]) = <<>> THEN next_message(msgs, i + 1)
    ELSE i

\* the events of the trace: a post_json call with its payload and what the
\* transport answered, and a sleep
PostEvent(i, text, resp) ==
    [kind |-> "post", msg |-> i, text |-> text,
     status |-> IF resp.error THEN 0 ELSE resp.status, body |-> resp.body,
     secs |-> 0]
SleepEvent(i, secs) ==
    [kind |-> "sleep", msg |-> i, text |-> <<>>, status |-> 0, body |-> NoJson,
     secs |-> secs]

TelegramInit ==
    /\ PipelineIdle
    /\ ids = {}
    /\ file = NoBlob
    /\ remote = NoBlob
    /\ uploads = <<>>
    /\ call = NoCall
    /\ saved = NoSaved
    /\ dispatcher \in Dispatchers
    /\ BatchIdle
    /\ FetchIdle
    /\ FunctionsIdle

ledgerVars == <<ids, file, remote, uploads, call, saved>>

\* send_batch without the allow-list check
TgSendBatchUnchecked ==
    /\ batch = NoBatch
    /\ tgResult = "none"
    /\ \E chat_id \in BatchChats,
          msgs \in SeqsUpTo(Texts, MaxBatch) :
        /\ batch' = [chat_id |-> chat_id, messages |-> msgs]
        /\ LET first == next_message(msgs, 1) IN
            /\ sending' = [idx |-> first, retries |-> 0]
            /\ tgResult' = IF first > Len(msgs) THEN "ok" ELSE "none"
    /\ UNCHANGED <<pipelineVars, ledgerVars, tmdbVars, functionVars, dispatcher, trace,
                   answered, failed, posts>>

\* send_batch, lines 38-47: the allow-list check and the messages skipped
\* before the first one that is sent
TgSendBatch ==
    /\ batch = NoBatch
    /\ tgResult = "none"
    /\ \E chat_id \in BatchChats,
          msgs \in SeqsUpTo(Texts, MaxBatch) :
        /\ batch' = [chat_id |-> chat_id, messages |-> msgs]
        /\ IF chat_id \notin dispatcher.chat_ids
           THEN /\ tgResult' = "UnknownChat"
                /\ UNCHANGED sending
           ELSE LET first == next_message(msgs, 1) IN
                /\ sending' = [idx |-> first, retries |-> 0]
                /\ tgResult' = IF first > Len(msgs) THEN "ok" ELSE "none"
    /\ UNCHANGED <<pipelineVars, ledgerVars, tmdbVars, functionVars, dispatcher, trace,
                   answered, failed, posts>>

\* send_single retries a 429 without looking at the retry counter
send_single_turn_rate_unbounded(d, retries, resp) ==
    IF resp.error
    THEN [kind |-> "Transport", delay |-> 0]
    ELSE IF is_success(resp.status)
    THEN [kind |-> "sent", delay |-> 0]
    ELSE IF resp.status = TOO_MANY_REQUESTS
    THEN LET hint == parse_retry_after(resp.body)
         IN [kind |-> "retry", delay |-> IF hint.some THEN hint.secs ELSE 1]
    ELSE IF is_server_error(resp.status) /\ retries < d.max_retries
    THEN [kind |-> "retry", delay |-> retry_delay_for(d, retries)]
    ELSE [kind |-> "Api", delay |-> 0]

\* send_single lets a retryable status through one time too many
send_single_turn_extra(d, retries, resp) ==
    IF resp.error
    THEN [kind |-> "Transport", delay |-> 0]
    ELSE IF is_success(resp.status)
    THEN [kind |-> "sent", delay |-> 0]
    ELSE IF resp.status = TOO_MANY_REQUESTS /\ retries <= d.max_retries
    THEN LET hint == parse_retry_after(resp.body)
         IN [kind |-> "retry", delay |-> IF hint.some THEN hint.secs ELSE 1]
    ELSE IF is_server_error(resp.status) /\ retries <= d.max_retries
    THEN [kind |-> "retry", delay |-> retry_delay_for(d, retries)]
    ELSE [kind |-> "Api", delay |-> 0]

\* one turn of the loop of send_single, lines 63-96: what the answer of the
\* transport makes of the message, with the pause before the next turn
send_single_turn(d, retries, resp) ==
    IF resp.error
    THEN [kind |-> "Transport", delay |-> 0]
    ELSE IF is_success(resp.status)
    THEN [kind |-> "sent", delay |-> 0]
    ELSE IF resp.status = TOO_MANY_REQUESTS /\ retries < d.max_retries
    THEN LET hint == parse_retry_after(resp.body)
         IN [kind |-> "retry", delay |-> IF hint.some THEN hint.secs ELSE 1]
    ELSE IF is_server_error(resp.status) /\ retries < d.max_retries
    THEN [kind |-> "retry", delay |-> retry_delay_for(d, retries)]
    ELSE [kind |-> "Api", delay |-> 0]

\* send_batch goes on with the next message after a failed one
send_batch_resume_lenient(msgs, i, kind) ==
    LET next == next_message(msgs, i + 1)
    IN IF next > Len(msgs)
       THEN [result |-> IF kind = "sent" THEN "ok" ELSE kind, idx |-> i]
       ELSE [result |-> "none", idx |-> next]

\* the loop of send_batch, lines 42-51, once send_single has returned for
\* message i: the error is passed on by `?`, a success moves on to the
\* next message that is sent or ends the batch
send_batch_resume(msgs, i, kind) ==
    LET next == next_message(msgs, i + 1)
    IN IF kind # "sent"
       THEN [result |-> kind, idx |-> i]
       ELSE IF next > Len(msgs)
       THEN [result |-> "ok", idx |-> i]
       ELSE [result |-> "none", idx |-> next]

\* one turn of the loop of send_single, lines 63-96, for the current message,
\* and, when send_single returns, the rest of the loop of send_batch up to
\* the next message that is sent
TgPost ==
    /\ batch # NoBatch
    /\ tgResult = "none"
    /\ \E resp \in Responses :
        LET i == sending.idx
            text == trim(batch.messages[i])
            post == PostEvent(i, text, resp)
            turn == send_single_turn(dispatcher, sending.retries, resp)
            resume == send_batch_resume(batch.messages, i, turn.kind)
        IN
        /\ posts' = posts + 1
        /\ answered' = IF turn.kind = "sent" THEN Append(answered, i)
                       ELSE answered
        /\ failed' = IF turn.kind \in {"Api", "Transport"}
                     THEN failed \cup {i}
                     ELSE failed
        /\ IF turn.kind = "retry"
           THEN /\ sending' = [sending EXCEPT !.retries = @ + 1]
                /\ trace' = trace \o <<post, SleepEvent(i, turn.delay)>>
                /\ UNCHANGED tgResult
           ELSE /\ tgResult' = resume.result
                /\ IF resume.idx # i
                   THEN /\ sending' = [idx |-> resume.idx, retries |-> 0]
                        /\ trace' = <<>>
                   ELSE /\ trace' = Append(trace, post)
                        /\ UNCHANGED sending
    /\ UNCHANGED <<pipelineVars, ledgerVars, tmdbVars, functionVars, dispatcher, batch>>

TelegramNext ==
    \/ TgSendBatch
    \/ TgPost

SpecTelegram == TelegramInit /\ [][TelegramNext]_vars

(***************************************************************************)
(* Properties of TelegramDispatcher.                                       *)
(***************************************************************************)
\* C19: send_batch for a chat id that is not in the allow-list returns
\* UnknownChat and makes no transport call, whatever the messages.
C19_UnknownChatMakesNoCall ==
    (batch # NoBatch /\ batch.chat_id \notin dispatcher.chat_ids) =>
        /\ tgResult = "UnknownChat"
        /\ posts = 0
        /\ trace = <<>>
        /\ answered = <<>>

C19_Witness ==
    /\ tgResult = "UnknownChat"
    /\ batch.chat_id = 999
    /\ batch.messages = <<<<"a">>, <<SP, "b", SP>>>>

\* the number of retries send_single had made before the event at position i
RetriesBefore(i) ==
    Cardinality({j \in 1..(i - 1) : trace[j].kind = "sleep"})

\* the statuses the transport answered for the current message, in order
RECURSIVE StatusesOf(_)
StatusesOf(t) ==
    IF t = <<>> THEN <<>>
    ELSE (IF t[1].kind = "post" THEN <<t[1].status>> ELSE <<>>)
            \o StatusesOf(Tail(t))

\* the body carries a retry_after hint of n seconds
HasHint(body, n) == body.json /\ body.parameters /\ body.retry_after = n

\* C20: after a 429 answer with retries remaining the dispatcher sleeps the
\* retry_after of the body, or 1 second when the body carries none, and then
\* posts the same message again; a batch of one message answered 429 and then
\* success returns Ok after exactly 2 transport calls.
C20_RateLimitRetry ==
    /\ \A i \in DOMAIN trace :
          (/\ trace[i].kind = "post"
           /\ trace[i].status = TOO_MANY_REQUESTS
           /\ RetriesBefore(i) < dispatcher.max_retries) =>
              /\ i + 1 \in DOMAIN trace
              /\ trace[i + 1].kind = "sleep"
              /\ \A n \in 0..7 : HasHint(trace[i].body, n) => trace[i + 1].secs = n
              /\ (\A n \in 0..7 : ~HasHint(trace[i].body, n)) =>
                    trace[i + 1].secs = 1
              /\ i + 2 \in DOMAIN trace \/ tgResult = "none"
              /\ i + 2 \in DOMAIN trace =>
                    /\ trace[i + 2].kind = "post"
                    /\ trace[i + 2].msg = trace[i].msg
                    /\ trace[i + 2].text = trace[i].text
    /\ (/\ Len(batch.messages) = 1
        /\ dispatcher.max_retries >= 1
        /\ StatusesOf(trace) = <<TOO_MANY_REQUESTS, 200>>) =>
            /\ tgResult = "ok"
            /\ posts = 2

C20_Witness ==
    /\ tgResult = "ok"
    /\ posts = 2
    /\ batch.messages = <<<<SP, "b", SP>>>>
    /\ Len(trace) = 3
    /\ trace[1].status = TOO_MANY_REQUESTS
    /\ HasHint(trace[1].body, 7)
    /\ trace[2].kind = "sleep"
    /\ trace[2].secs = 7
    /\ trace[3].status = 200
    /\ trace[3].text = <<"b">>

\* the status is one of the server errors, 500 to 599
ServerError(status) == status \in 500..599

\* the last event of the trace
LastEvent == trace[Len(trace)]

\* C21: when the transport answers 5xx on every attempt for a message,
\* send_batch returns the Api error after exactly max_retries + 1 transport
\* calls for it, never sooner and never later; when a success arrives within
\* those attempts the message is answered and a batch that ends with it
\* returns Ok.
C21_ServerErrorRetries ==
    LET st == StatusesOf(trace)
        n == Len(st)
    IN
    /\ (n > 0 /\ \A k \in 1..n : ServerError(st[k])) =>
          /\ n <= dispatcher.max_retries + 1
          /\ n = dispatcher.max_retries + 1 <=> tgResult = "Api"
          /\ n <= dispatcher.max_retries <=> tgResult = "none"
          /\ (tgResult = "Api" /\ answered = <<>>) =>
                posts = dispatcher.max_retries + 1
    /\ (/\ n > 0
        /\ n <= dispatcher.max_retries + 1
        /\ \A k \in 1..(n - 1) : ServerError(st[k])
        /\ is_success(st[n])) =>
          /\ tgResult = "ok"
          /\ answered # <<>>
          /\ answered[Len(answered)] = sending.idx

C21_Witness ==
    /\ tgResult = "Api"
    /\ dispatcher.max_retries = 2
    /\ StatusesOf(trace) = <<500, 503, 500>>
    /\ posts = 3

\* the current message ended in Failed: its last answer is a status that is
\* neither a success nor retryable, or a retryable one with no retry left
EndsFailed ==
    /\ trace # <<>>
    /\ LastEvent.kind = "post"
    /\ LastEvent.status # 0
    /\ ~is_success(LastEvent.status)
    /\ (LastEvent.status = TOO_MANY_REQUESTS \/ ServerError(LastEvent.status)) =>
          RetriesBefore(Len(trace)) >= dispatcher.max_retries

\* C22: send_batch is fail-fast: once send_single has failed for a message,
\* send_batch has returned an error, the failed message is the one it stopped
\* at, every message answered before it comes earlier in the batch, and no
\* further transport call is ever made.
C22_FailFast ==
    [][/\ failed # {} => posts' = posts /\ trace' = trace
       /\ failed' # {} =>
            /\ tgResult' \in {"Api", "Transport"}
            /\ failed' = {sending'.idx}
            /\ \A j \in Range(answered') : j < sending'.idx
            /\ trace' # <<>>
            /\ \A k \in DOMAIN trace' : trace'[k].msg = sending'.idx
            /\ trace'[Len(trace')].kind = "post"
       /\ EndsFailed' => (tgResult' = "Api" /\ failed' = {sending'.idx})]_vars

C22_Witness ==
    /\ tgResult = "Api"
    /\ failed = {1}
    /\ posts = 1
    /\ LastEvent.status = 400
    /\ batch.messages = <<<<"a">>, <<SP, "b", SP>>>>

\* C23: the messages of one send_batch call are sent one at a time in input
\* order: every transport call is for the current message and carries its
\* trimmed text, every message before the current one that is not empty once
\* trimmed was answered with success, in increasing order, and a message that
\* is empty once trimmed gets no transport call at all.
C23_OneAtATimeInOrder ==
    (batch # NoBatch /\ tgResult # "UnknownChat") =>
        LET msgs == batch.messages IN
        /\ \A k \in DOMAIN trace :
              /\ trace[k].msg = sending.idx
              /\ trace[k].kind = "post" =>
                    /\ trace[k].text = trim(msgs[sending.idx])
                    /\ trace[k].text # <<>>
        /\ \A a, b \in DOMAIN answered : a < b => answered[a] < answered[b]
        /\ \A j \in Range(answered) \cup failed :
              j \in DOMAIN msgs /\ trim(msgs[j]) # <<>>
        /\ \A j \in 1..(sending.idx - 1) :
              j \in Range(answered) <=> trim(msgs[j]) # <<>>
        /\ \A j \in Range(answered) : j <= sending.idx
        /\ posts >= Len(answered)
        /\ (\A j \in DOMAIN msgs : trim(msgs[j]) = <<>>) =>
              (posts = 0 /\ tgResult = "ok")

C23_Witness ==
    /\ tgResult = "ok"
    /\ batch.messages = <<<<SP, "b", SP>>, <<"a">>>>
    /\ answered = <<1, 2>>
    /\ posts = 3

\* C30: after a 5xx answer with retries remaining the dispatcher sleeps
\* retry_delays[min(n, len - 1)], counted from 0, where n is the number of
\* retries already made for the message and len the length of the schedule.
C30_ServerErrorDelay ==
    \A i \in DOMAIN trace :
        (/\ trace[i].kind = "post"
         /\ ServerError(trace[i].status)
         /\ RetriesBefore(i) < dispatcher.max_retries) =>
            LET n == RetriesBefore(i)
                len == Len(dispatcher.retry_delays)
            IN /\ len >= 1
               /\ i + 1 \in DOMAIN trace
               /\ trace[i + 1].kind = "sleep"
               /\ trace[i + 1].secs =
                     dispatcher.retry_delays[Min({n, len - 1}) + 1]

C30_Witness ==
    /\ dispatcher.retry_delays = <<4>>
    /\ dispatcher.max_retries = 2
    /\ Len(trace) = 5
    /\ ServerError(trace[1].status) /\ trace[2].secs = 4
    /\ ServerError(trace[3].status) /\ trace[4].secs = 4

(***************************************************************************)
(* TmdbClient on its own: one fetch_digital_releases call, every network   *)
(* call of it answered by the catalog in any way.  Times are minutes.      *)
(***************************************************************************)
RETRY_DELAYS == <<5, 15, 30>>
MAX_DISCOVER_PAGES == 5

ReleaseWindow(start, end) == [start |-> start, end |-> end]

\* the window is laid ahead of now instead of behind it
release_window_ahead(now) == ReleaseWindow(now + 48 * 60 + 5, now)

\* Orchestrator::release_window
release_window(now) == ReleaseWindow(now - 48 * 60 - 5, now)

\* the reported page count is only raised to 1, never capped
limit_total_pages_uncapped(total_pages) ==
    IF total_pages < 1 THEN 1 ELSE total_pages

\* limit_total_pages: u32::clamp(1, MAX_DISCOVER_PAGES)
limit_total_pages(total_pages) ==
    IF total_pages < 1 THEN 1
    ELSE IF total_pages > MAX_DISCOVER_PAGES THEN MAX_DISCOVER_PAGES
    ELSE total_pages

\* the instants a run may start at, and the windows other callers may pass
Nows == {0, 20000}
DirectWindows == {ReleaseWindow(7, 3), ReleaseWindow(3, 3), ReleaseWindow(3, 7)}

\* the ids a TmdbClient may hold as history
Histories == {{}, {1}}

\* the entries of a discover page: id and release_date, which may be missing
\* (empty by serde default) or not a date
DiscoverMovie(id, release_date) == [id |-> id, release_date |-> release_date]
DiscoverMovies ==
    {DiscoverMovie(1, "2024-01-02"), DiscoverMovie(2, ""),
     DiscoverMovie(3, "soon")}

\* total_pages as the catalog may report it
Totals == {0, 1, 2, 5, 6, 2147483647}

\* the network calls of a fetch
NoRequest == [call |-> "none", n |-> 0]
Discover(page) == [call |-> "discover", n |-> page]
Details(movie_id) == [call |-> "details", n |-> movie_id]
ReleaseDates(movie_id) == [call |-> "release_dates", n |-> movie_id]

\* what send() may return: a network error, an error carrying a 5xx status,
\* or a response with a status
SendOutcome(error, status) == [error |-> error, status |-> status]
SendOutcomes ==
    {SendOutcome(TRUE, 0), SendOutcome(TRUE, 502), SendOutcome(FALSE, 500),
     SendOutcome(FALSE, 404), SendOutcome(FALSE, 200)}

RELEVANT_PRODUCTION_COUNTRIES ==
    {"US", "GB", "CA", "AU", "FR", "DE", "IT", "ES", "JP", "KR", "RU", "NL",
     "SE", "NO", "DK", "FI", "BE", "IE", "CH", "PL", "CZ", "AT", "HU"}
EXCLUDED_GENRES == {"Documentary", "TV Movie", "Music", "Reality"}

\* tmdb::MovieDetails, the fields is_relevant_release may read; runtime is an
\* Option<u32>, <<>> for None
MovieDetails(countries, genres, runtime, vote_average, vote_count) ==
    [production_countries |-> countries, genres |-> genres, runtime |-> runtime,
     vote_average |-> vote_average, vote_count |-> vote_count]

\* no details are held between two movies
NoDetails == [production_countries |-> "none"]

\* is_relevant_release asking for a rating as well
is_relevant_release_rated(details) ==
    /\ details.production_countries \cap RELEVANT_PRODUCTION_COUNTRIES # {}
    /\ details.genres \cap EXCLUDED_GENRES = {}
    /\ details.runtime # <<>> /\ details.runtime[1] >= 60
    /\ details.vote_count > 0

\* tmdb::is_relevant_release
is_relevant_release(details) ==
    LET has_relevant_country ==
            \E country \in details.production_countries :
                country \in RELEVANT_PRODUCTION_COUNTRIES
        has_excluded_genre ==
            \E genre \in details.genres : genre \in EXCLUDED_GENRES
        has_required_runtime ==
            IF details.runtime = <<>> THEN FALSE ELSE details.runtime[1] >= 60
    IN has_relevant_country /\ ~has_excluded_genre /\ has_required_runtime

\* the details the movie endpoint answers with
DetailsSamples ==
    {MovieDetails({"US"}, {"Drama"}, <<60>>, 0, 0),
     MovieDetails({"US"}, {"Drama"}, <<60>>, 8, 1000),
     MovieDetails({"BR", "HU"}, {}, <<61>>, 0, 0),
     MovieDetails({"BR"}, {"Drama"}, <<120>>, 8, 1000),
     MovieDetails({}, {"Drama"}, <<120>>, 8, 1000),
     MovieDetails({"US", "BR"}, {"Drama", "Documentary"}, <<90>>, 8, 1000),
     MovieDetails({"US"}, {"Drama"}, <<>>, 8, 1000),
     MovieDetails({"US"}, {"Drama"}, <<59>>, 8, 1000)}

\* the body of a 200 response: JSON of the expected shape or not
BadJson == [json |-> FALSE]
Payloads(f) ==
    {BadJson} \cup
    IF f.req.call = "discover"
    THEN {[json |-> TRUE, total_pages |-> t, results |-> r] :
            t \in Totals,
            r \in {x \in SeqsUpTo(DiscoverMovies, 1) :
                     Len(f.movies) + Len(x) <= MaxMovies}}
    ELSE IF f.req.call = "details"
    THEN {[json |-> TRUE, details |-> d] : d \in DetailsSamples}
    ELSE {[json |-> TRUE, digital |-> d] : d \in {"some", "none", "bad"}}

\* the events of a network call
SendEvent(req, outcome) ==
    [kind |-> "send", req |-> req, error |-> outcome.error,
     status |-> outcome.status, minutes |-> 0]
WaitEvent(req, minutes) ==
    [kind |-> "sleep", req |-> req, error |-> FALSE, status |-> 0,
     minutes |-> minutes]

\* execute_with_retry retries whatever is not a success
execute_with_retry_turn_eager(retries, outcome) ==
    IF outcome.error \/ ~is_success(outcome.status)
    THEN IF retries < Len(RETRY_DELAYS)
         THEN [kind |-> "retry", delay |-> RETRY_DELAYS[retries + 1]]
         ELSE [kind |-> "RetryLimitExceeded", delay |-> 0]
    ELSE [kind |-> "response", delay |-> 0]

\* one turn of the loop of execute_with_retry, after `retries` delays were
\* taken from the schedule
execute_with_retry_turn(retries, outcome) ==
    IF is_server_error(outcome.status)
    THEN IF retries < Len(RETRY_DELAYS)
         THEN [kind |-> "retry", delay |-> RETRY_DELAYS[retries + 1]]
         ELSE [kind |-> "RetryLimitExceeded", delay |-> 0]
    ELSE IF outcome.error
    THEN [kind |-> "Http", delay |-> 0]
    ELSE [kind |-> "response", delay |-> 0]

\* fetch_json once execute_with_retry has returned a response
fetch_json(outcome, payload) ==
    IF ~is_success(outcome.status) THEN "UnexpectedStatus"
    ELSE IF ~payload.json THEN "Http"
    ELSE "ok"

\* TmdbClient::append_history, which preload_history calls
append_history(own, new_ids) == own \cup new_ids

\* the loop over the movies looking up every movie that has a date
movie_loop_lookup_known(f, i) ==
    IF i > Len(f.movies)
    THEN [fetch |-> [f EXCEPT !.req = NoRequest, !.index = i], result |-> "ok"]
    ELSE IF f.movies[i].release_date \in {"", "soon"}
    THEN [fetch |-> [f EXCEPT !.req = NoRequest, !.index = i],
          result |-> "DateParse"]
    ELSE [fetch |-> [f EXCEPT !.req = Details(f.movies[i].id), !.index = i],
          result |-> "none"]

\* the loop of fetch_digital_releases over the movies, from movie i up to
\* the next network call
RECURSIVE movie_loop(_, _)
movie_loop(f, i) ==
    IF i > Len(f.movies)
    THEN [fetch |-> [f EXCEPT !.req = NoRequest, !.index = i], result |-> "ok"]
    ELSE IF f.movies[i].id \in f.history \/ f.movies[i].release_date = ""
    THEN movie_loop(f, i + 1)
    ELSE IF f.movies[i].release_date = "soon"
    THEN [fetch |-> [f EXCEPT !.req = NoRequest, !.index = i],
          result |-> "DateParse"]
    ELSE [fetch |-> [f EXCEPT !.req = Details(f.movies[i].id), !.index = i],
          result |-> "none"]

\* fetch_digital_releases from the answer of a network call up to the next
\* one
after_response(f, payload) ==
    IF f.req.call = "discover"
    THEN LET total == IF f.req.n = 1
                      THEN limit_total_pages(payload.total_pages)
                      ELSE f.total_pages
             g == [f EXCEPT !.movies = @ \o payload.results,
                            !.total_pages = total,
                            !.reported = IF f.req.n = 1
                                         THEN payload.total_pages ELSE @]
         IN IF f.req.n < total
            THEN [fetch |-> [g EXCEPT !.req = Discover(f.req.n + 1)],
                  result |-> "none"]
            ELSE movie_loop(g, 1)
    ELSE IF f.req.call = "details"
    THEN [fetch |-> [f EXCEPT !.details = payload.details,
                              !.req = ReleaseDates(f.req.n)],
          result |-> "none"]
    ELSE IF payload.digital = "bad"
    THEN [fetch |-> f, result |-> "DateParse"]
    ELSE movie_loop([f EXCEPT !.releases =
                        IF is_relevant_release(f.details)
                        THEN Append(@, f.req.n) ELSE @,
                              !.details = NoDetails],
                    f.index + 1)

TmdbInit ==
    /\ PipelineIdle
    /\ ids = {}
    /\ file = NoBlob
    /\ remote = NoBlob
    /\ uploads = <<>>
    /\ call = NoCall
    /\ saved = NoSaved
    /\ dispatcher = NoDispatcher
    /\ BatchIdle
    /\ FetchIdle
    /\ FunctionsIdle

\* the start of fetch_digital_releases, lines 96-102: called by
\* Orchestrator::run with release_window(now), or by another caller with a
\* window of its own
TmdbFetch ==
    /\ fetch = NoFetch
    /\ \E by \in {"run", "direct"}, now \in Nows, w \in DirectWindows,
          history \in Histories :
        LET window == IF by = "run" THEN release_window(now) ELSE w
            valid == ~(window.start > window.end)
        IN
        /\ fetch' = [by |-> by, window |-> window,
                     ledger |-> IF by = "run" THEN history ELSE {},
                     history |-> IF by = "run" THEN append_history({}, history)
                                 ELSE history,
                     req |-> IF valid THEN Discover(1) ELSE NoRequest,
                     requests |-> <<>>, reported |-> 0, total_pages |-> 0,
                     movies |-> <<>>,
                     index |-> 0, details |-> NoDetails, releases |-> <<>>]
        /\ tmdbResult' = IF valid THEN "none" ELSE "InvalidWindow"
    /\ UNCHANGED <<pipelineVars, ledgerVars, telegramVars, functionVars,
                   attempts>>

\* one send() of the current network call: a turn of the loop of
\* execute_with_retry and, when it returns, the rest of fetch_json and of
\* fetch_digital_releases up to the next network call
TmdbSend ==
    /\ fetch # NoFetch
    /\ tmdbResult = "none"
    /\ \E outcome \in SendOutcomes, payload \in Payloads(fetch) :
        LET retries == Cardinality({k \in DOMAIN attempts :
                                      attempts[k].kind = "sleep"})
            turn == execute_with_retry_turn(retries, outcome)
            event == SendEvent(fetch.req, outcome)
            logged == [fetch EXCEPT !.requests =
                          IF attempts = <<>> THEN Append(@, fetch.req) ELSE @]
            parsed == fetch_json(outcome, payload)
            after == after_response(logged, payload)
        IN
        IF turn.kind = "retry"
        THEN /\ attempts' = attempts \o <<event, WaitEvent(fetch.req, turn.delay)>>
             /\ fetch' = logged
             /\ UNCHANGED tmdbResult
        ELSE IF turn.kind # "response"
        THEN /\ attempts' = Append(attempts, event)
             /\ fetch' = logged
             /\ tmdbResult' = turn.kind
        ELSE IF parsed # "ok"
        THEN /\ attempts' = Append(attempts, event)
             /\ fetch' = logged
             /\ tmdbResult' = parsed
        ELSE /\ fetch' = after.fetch
             /\ tmdbResult' = after.result
             /\ attempts' = IF after.result = "none" THEN <<>>
                            ELSE Append(attempts, event)
    /\ UNCHANGED <<pipelineVars, ledgerVars, telegramVars, functionVars>>

TmdbNext ==
    \/ TmdbFetch
    \/ TmdbSend

SpecTmdb == TmdbInit /\ [][TmdbNext]_vars

(***************************************************************************)
(* Properties of TmdbClient.                                               *)
(***************************************************************************)
\* C24: fetch_digital_releases called with window.start > window.end returns
\* InvalidWindow without any network call, and returns it for no other
\* window; the window Orchestrator::run passes reaches 48 hours and 5 minutes
\* back from now, so start <= end and its fetch never returns InvalidWindow.
C24_InvalidWindow ==
    fetch # NoFetch =>
        /\ fetch.window.start > fetch.window.end =>
              /\ tmdbResult = "InvalidWindow"
              /\ fetch.requests = <<>>
              /\ attempts = <<>>
        /\ tmdbResult = "InvalidWindow" => fetch.window.start > fetch.window.end
        /\ fetch.by = "run" =>
              /\ fetch.window.end - fetch.window.start = 48 * 60 + 5
              /\ fetch.window.start <= fetch.window.end
              /\ tmdbResult # "InvalidWindow"

C24_Witness ==
    /\ fetch # NoFetch
    /\ fetch.window = ReleaseWindow(7, 3)
    /\ tmdbResult = "InvalidWindow"

\* the number of delays taken from the schedule up to position i of attempts
SleepsUpTo(i) ==
    Cardinality({k \in 1..i : attempts[k].kind = "sleep"})

\* the positions of the send() calls of the current network call
Sends == {k \in DOMAIN attempts : attempts[k].kind = "send"}

\* C25: a catalog network call is retried only on 5xx, through the schedule
\* of 5, 15 and 30 minutes in order: a call answered 5xx every time is sent
\* exactly 4 times and the fetch fails with RetryLimitExceeded; any other
\* failure (network error, non-success status) is the last send of the call
\* and fails the fetch at once.
C25_RetryOnlyOn5xx ==
    /\ \A i \in DOMAIN attempts :
          /\ fetch.requests # <<>>
          /\ attempts[i].req = fetch.requests[Len(fetch.requests)]
          /\ attempts[i].kind = "sleep" =>
                /\ i > 1
                /\ attempts[i - 1].kind = "send"
                /\ ServerError(attempts[i - 1].status)
                /\ SleepsUpTo(i) \in DOMAIN RETRY_DELAYS
                /\ attempts[i].minutes = RETRY_DELAYS[SleepsUpTo(i)]
          /\ (attempts[i].kind = "send" /\ ServerError(attempts[i].status)) =>
                IF SleepsUpTo(i) < 3
                THEN i + 1 \in DOMAIN attempts /\ attempts[i + 1].kind = "sleep"
                ELSE i = Len(attempts) /\ tmdbResult = "RetryLimitExceeded"
          /\ (attempts[i].kind = "send" /\ ~ServerError(attempts[i].status)) =>
                /\ i = Len(attempts)
                /\ attempts[i].error => tmdbResult = "Http"
                /\ (~attempts[i].error /\ ~is_success(attempts[i].status)) =>
                      tmdbResult = "UnexpectedStatus"
    /\ Cardinality(Sends) <= 4
    /\ tmdbResult = "RetryLimitExceeded" <=>
          /\ Cardinality(Sends) = 4
          /\ \A k \in Sends : ServerError(attempts[k].status)

C25_Witness ==
    /\ tmdbResult = "RetryLimitExceeded"
    /\ Len(attempts) = 7
    /\ attempts[2].minutes = 5
    /\ attempts[4].minutes = 15
    /\ attempts[6].minutes = 30
    /\ fetch.req = Details(1)

\* the discover requests among the network calls of the fetch
DiscoverRequests ==
    {k \in DOMAIN fetch.requests : fetch.requests[k].call = "discover"}

\* C26: the discover pages are requested first, page 1 and then 2..n in
\* increasing order, n being the total_pages of the first answer clamped to
\* 1..5: never a page above 5, never more than 5 pages, and all n of them
\* before anything else is requested.
C26_PagesCapped ==
    fetch # NoFetch =>
        LET n == IF fetch.reported < 1 THEN 1
                 ELSE IF fetch.reported > 5 THEN 5
                 ELSE fetch.reported
        IN
        /\ \A k \in DiscoverRequests : fetch.requests[k].n = k /\ k <= 5
        /\ Cardinality(DiscoverRequests) <= 5
        /\ fetch.total_pages # 0 =>
              /\ fetch.total_pages = n
              /\ Cardinality(DiscoverRequests) <= n
        /\ fetch.total_pages = 0 => Cardinality(DiscoverRequests) <= 1
        /\ (tmdbResult = "ok" \/ DiscoverRequests # DOMAIN fetch.requests) =>
              DiscoverRequests = 1..n

C26_Witness ==
    /\ tmdbResult = "ok"
    /\ fetch.reported = 2147483647
    /\ fetch.requests =
          <<Discover(1), Discover(2), Discover(3), Discover(4), Discover(5)>>

(***************************************************************************)
(* Properties of the runs, continued.                                      *)
(***************************************************************************)
\* C27: every id that Orchestrator::run adds to the ledger is named in at
\* least one message that was delivered to some chat in that run; the id of a
\* release that matched no chat, and so is in no message, is not recorded.
C27_RecordedIdsWereDelivered ==
    OrchEnded =>
        \A id \in ids \ restored.ids :
            \E i \in DOMAIN sent : id \in ItemsOf(sent[i])

\* the steps from stage to stage a run may take
StageSteps ==
    {<<"restoring", "fetching">>, <<"restoring", "failed">>,
     <<"fetching", "notifying">>, <<"fetching", "dispatching">>,
     <<"fetching", "persisting">>, <<"fetching", "done">>,
     <<"fetching", "failed">>,
     <<"notifying", "done">>, <<"notifying", "failed">>,
     <<"dispatching", "persisting">>, <<"dispatching", "failed">>,
     <<"persisting", "done">>, <<"persisting", "failed">>}

\* C28: a run of Orchestrator::run or of run_pipeline goes through restore,
\* fetch and filter, dispatch, persist in this order: the fetch returns its
\* releases only in the stage that follows restore, a message is sent only
\* after the fetch has returned, and the ledger is appended to and the store
\* uploaded to only once every message of the run has been delivered.
C28_StagesInOrder ==
    [][(entry \in {"orchestrator", "pipeline"} /\ run' = run) =>
          /\ pc' # pc => <<pc, pc'>> \in StageSteps
          /\ releases' # releases => pc = "fetching"
          /\ sent' # sent =>
                /\ pc \in {"notifying", "dispatching"}
                /\ releases' = releases
          /\ (uploads' # uploads \/ (ids' # ids /\ pc # "restoring")) =>
                /\ pc = "persisting"
                /\ sent' = sent
                /\ Len(sent) = Len(messages)
                /\ Range(messages) \subseteq Range(sent)]_vars

C28_Witness ==
    /\ entry = "orchestrator"
    /\ pc = "done"
    /\ result = "ok"
    /\ restored.ok
    /\ Len(sent) >= 2
    /\ uploads # <<>>
    /\ ids # restored.ids

C39_SharedRetryCounter ==
    LET st == StatusesOf(trace)
        sleeps == Cardinality({k \in DOMAIN trace : trace[k].kind = "sleep"})
    IN
    /\ Len(st) <= dispatcher.max_retries + 1
    /\ sleeps <= dispatcher.max_retries
    /\ tgResult = "none" => sending.retries = sleeps
    /\ Len(st) = dispatcher.max_retries + 1 => tgResult # "none"
    /\ (/\ dispatcher.max_retries = 0
        /\ st # <<>>
        /\ st[1] = TOO_MANY_REQUESTS \/ ServerError(st[1])) =>
            /\ tgResult = "Api"
            /\ Len(st) = 1

C39_Witness ==
    /\ dispatcher.max_retries = 2
    /\ StatusesOf(trace) = <<TOO_MANY_REQUESTS, 500, TOO_MANY_REQUESTS>>
    /\ tgResult = "Api"

(***************************************************************************)
(* Properties of SentHistory, continued.                                   *)
(***************************************************************************)
\* C40: when the download fails, restore() returns the error and leaves the
\* set and the local file as they were, whatever the local file and the
\* remote store hold and whether or not the file could be read: the local
\* file is parsed only when the download reports that there is no blob.
C40_DownloadErrorAbortsRestore ==
    [][(call'.op = "restore" /\ call'.dl = "err") =>
          /\ call'.ret = "err"
          /\ ids' = ids
          /\ file' = file
          /\ remote' = remote
          /\ uploads' = <<>>]_vars

C40_Witness ==
    /\ call.op = "restore"
    /\ call.dl = "err"
    /\ call.io = "ok"
    /\ call.ret = "err"
    /\ file = Blob(to_string(MOVIE_ID_MAX))
    /\ ~remote.present
    /\ ids = {}

(***************************************************************************)
(* Orchestrator::run twice over the same stores, the second run being      *)
(* given the catalog of the first when the first failed after a delivery.  *)
(***************************************************************************)
RerunInit ==
    /\ Init
    /\ entry = "orchestrator"

\* the next invocation after the first run; what the first run was given and
\* what it delivered is remembered when it failed in dispatch after a delivery
Rerun(keep) ==
    /\ ResetRun(keep)
    /\ run = 1
    /\ prev' = IF result = "Dispatch" /\ sent # <<>>
               THEN [ledger |-> restored.ids, releases |-> releases,
                     sent |-> sent]
               ELSE NoPrev

\* the fetch returns to the second run what it returned to the first
OrchFetchSame ==
    /\ OrchFetchOk
    /\ prev = NoPrev \/ releases' = prev.releases

RerunNext ==
    \/ \E dl \in Outcomes, io \in Outcomes : OrchRestore(dl, io)
    \/ OrchFetchErr
    \/ OrchFetchSame
    \/ \E outcome \in Outcomes : OrchSendEmpty(outcome)
    \/ \E c \in ChatIds, k \in 0..(MaxFetch + 1) : OrchDispatch(c, k)
    \/ \E io \in Outcomes, up \in Outcomes : OrchPersist(io, up)
    \/ \E keep \in BOOLEAN : Rerun(keep)

SpecRerun == RerunInit /\ [][RerunNext]_vars

\* the ids named in the messages of ms that went to chat c
ItemsFor(ms, c) ==
    UNION {ItemsOf(ms[i]) : i \in {j \in DOMAIN ms : ms[j].chat_id = c}}

\* C37: a run that delivered to a chat and then failed sending has appended
\* nothing and stored nothing; the next run, when it restores the same ledger
\* and is given the same catalog, builds messages with the same items for the
\* chats already served and, when it succeeds, has sent them those items
\* again.
C37_PartialDispatchResends ==
    /\ (pc = "failed" /\ result = "Dispatch" /\ sent # <<>>) =>
          /\ ids = restored.ids
          /\ file = restored.file
          /\ uploads = <<>>
    /\ (/\ prev # NoPrev
        /\ pc \in {"dispatching", "persisting", "done", "failed"}
        /\ result # "Releases"
        /\ restored.ids = prev.ledger) =>
          \A c \in ChatIds :
              /\ ItemsFor(prev.sent, c) \subseteq ItemsFor(messages, c)
              /\ result = "ok" => ItemsFor(prev.sent, c) \subseteq ItemsFor(sent, c)

C37_Witness ==
    /\ prev # NoPrev
    /\ restored.ids = prev.ledger
    /\ pc = "done"
    /\ result = "ok"
    /\ \E c \in ChatIds :
          /\ ItemsFor(prev.sent, c) # {}
          /\ ItemsFor(prev.sent, c) \subseteq ItemsFor(sent, c)

(***************************************************************************)
(* Functions applied on their own: each action draws the arguments of one  *)
(* function and records the call with the value the function returns.      *)
(***************************************************************************)
FunctionsInit ==
    /\ PipelineIdle
    /\ ids = {}
    /\ file = NoBlob
    /\ remote = NoBlob
    /\ uploads = <<>>
    /\ ComponentsIdle

\* the arguments of formatter::chunk_lines: byte lengths of the header and
\* of the lines, and the limit
HeaderLens == {0, 3}
LineLens == 0..MaxLineLen
ChunkLimits == {4, 8}
LineInputs ==
    {[i \in DOMAIN s |-> [id |-> i, len |-> s[i]]] : s \in SeqsUpTo(LineLens, MaxLines)}

ApplyChunkLines ==
    /\ applied = NoApplied
    /\ \E header_len \in HeaderLens, ls \in LineInputs, max_len \in ChunkLimits :
          applied' = [fn |-> "chunk_lines", header_len |-> header_len,
                      lines |-> ls, max_len |-> max_len,
                      value |-> chunk_lines(1, header_len, ls, max_len)]
    /\ UNCHANGED <<pipelineVars, ledgerVars, telegramVars, tmdbVars, racers>>

\* the arguments of formatter::group_releases_by_chat: releases with short
\* titles, released 2, 50 or 60 hours before the instant or one hour after
\* it, and a configuration of one chat with locales or of one without
GroupTitles == {<<1>>, <<2>>}
GroupTimes == {Now - 2, Now - 50, Now - 60, Now + 1}
GroupLocales == {"ru", "fr"}
GroupConfigs == {<<Chats[1]>>, <<[chat_id |-> 30, locales |-> <<>>]>>}
DigitalReleases ==
    [title : GroupTitles, release_time : GroupTimes, locale : GroupLocales]
GroupInputs ==
    {[i \in DOMAIN s |->
          [id |-> i, title |-> s[i].title, title_len |-> Len(s[i].title),
           release_time |-> s[i].release_time, locale |-> s[i].locale]] :
       s \in SeqsUpTo(DigitalReleases, MaxFetch)}

ApplyGroup ==
    /\ applied = NoApplied
    /\ \E rs \in GroupInputs, config \in GroupConfigs :
          applied' = [fn |-> "group_releases_by_chat", releases |-> rs,
                      config |-> config,
                      value |-> group_releases_by_chat(rs, config, Now)]
    /\ UNCHANGED <<pipelineVars, ledgerVars, telegramVars, tmdbVars, racers>>

\* Option<NaiveDate>: dates are day numbers
None == <<>>
Some(d) == <<d>>

PRIORITY_DIGITAL_REGIONS == <<"RU", "US", "GB", "DE", "FR", "IT", "ES", "NL">>

\* the loop of tmdb::select_preferred_date over the dates from index i
RECURSIVE preferred_loop(_, _, _, _, _)
preferred_loop(dates, today, i, past_min, all_min) ==
    IF i > Len(dates) THEN IF past_min # None THEN past_min ELSE all_min
    ELSE LET date == dates[i]
             all2 == IF all_min = None THEN Some(date)
                     ELSE Some(IF all_min[1] < date THEN all_min[1] ELSE date)
             past2 == IF date <= today
                      THEN IF past_min = None THEN Some(date)
                           ELSE Some(IF past_min[1] < date THEN past_min[1] ELSE date)
                      ELSE past_min
         IN preferred_loop(dates, today, i + 1, past2, all2)

\* tmdb::select_preferred_date
select_preferred_date(dates, today) == preferred_loop(dates, today, 1, None, None)

\* tmdb::parse_release_date: an RFC 3339 text gives its UTC date, which is
\* the written day moved by the offset; a %Y-%m-%d text gives its day; any
\* other text is an error
parse_release_date(raw) ==
    CASE raw.form = "rfc3339" -> [ok |-> TRUE, date |-> raw.day + raw.to_utc]
      [] raw.form = "ymd" -> [ok |-> TRUE, date |-> raw.day]
      [] OTHER -> [ok |-> FALSE]

\* the entries select_digital_release_date parses: type 4, date not empty
ParsedEntries(release_dates) ==
    SelectSeq(release_dates,
              LAMBDA e : e.release_type = 4 /\ e.release_date.form # "empty")

DatesOf(release_dates) ==
    LET es == ParsedEntries(release_dates)
    IN [i \in DOMAIN es |-> parse_release_date(es[i].release_date).date]

\* the flattened values of by_region; select_preferred_date takes minima, so
\* the order of the map's values does not show
RECURSIVE Flatten(_, _)
Flatten(results, regions) ==
    IF results = <<>> THEN <<>>
    ELSE (IF results[1].region \in regions
          THEN DatesOf(results[1].release_dates) ELSE <<>>)
         \o Flatten(Tail(results), regions)

\* select_digital_release_date choosing among the dates of all regions
select_digital_release_date_any_region(results, today) ==
    LET failing == {i \in DOMAIN results :
                      \E e \in Range(ParsedEntries(results[i].release_dates)) :
                          ~parse_release_date(e.release_date).ok}
    IN IF failing # {} THEN [ok |-> FALSE, error |-> "DateParse"]
       ELSE [ok |-> TRUE,
             date |-> select_preferred_date(
                          Flatten(results, {results[i].region : i \in DOMAIN results}),
                          today)]

\* tmdb::select_digital_release_date, with today for Utc::now().date_naive()
select_digital_release_date(results, today) ==
    LET failing == {i \in DOMAIN results :
                      \E e \in Range(ParsedEntries(results[i].release_dates)) :
                          ~parse_release_date(e.release_date).ok}
        by_region == {results[i].region : i \in
                         {j \in DOMAIN results :
                             ParsedEntries(results[j].release_dates) # <<>>}}
        priority == {k \in DOMAIN PRIORITY_DIGITAL_REGIONS :
                        PRIORITY_DIGITAL_REGIONS[k] \in by_region}
    IN IF failing # {} THEN [ok |-> FALSE, error |-> "DateParse"]
       ELSE IF priority # {}
       THEN [ok |-> TRUE,
             date |-> select_preferred_date(
                          Flatten(results, {PRIORITY_DIGITAL_REGIONS[Min(priority)]}),
                          today)]
       ELSE [ok |-> TRUE,
             date |-> select_preferred_date(Flatten(results, by_region), today)]

\* the arguments of select_preferred_date: days around the day Today
Days == 1..4
Todays == {0, 2}

ApplySelectPreferred ==
    /\ applied = NoApplied
    /\ \E dates \in SeqsUpTo(Days, MaxDates), today \in Todays :
          applied' = [fn |-> "select_preferred_date", dates |-> dates,
                      today |-> today,
                      value |-> select_preferred_date(dates, today)]
    /\ UNCHANGED <<pipelineVars, ledgerVars, telegramVars, tmdbVars, racers>>

\* the answers of the release_dates endpoint: regions with distinct codes,
\* two of the priority list and two outside it, each with one of these lists
Ymd(day) == [form |-> "ymd", day |-> day]
Entry(release_date, release_type) ==
    [release_date |-> release_date, release_type |-> release_type]
BadDate == [form |-> "bad"]
EmptyDate == [form |-> "empty"]
RegionCodes == {"US", "RU", "BR", "CA"}
RegionDates ==
    {<<>>,
     <<Entry(Ymd(1), 4)>>,
     <<Entry(Ymd(4), 4), Entry(Ymd(3), 4)>>,
     <<Entry([form |-> "rfc3339", day |-> 3, to_utc |-> -1], 4)>>,
     <<Entry(Ymd(1), 3), Entry(EmptyDate, 4)>>,
     <<Entry(BadDate, 3), Entry(Ymd(3), 4)>>,
     <<Entry(BadDate, 4)>>}
ReleaseDatesResults ==
    {[i \in DOMAIN rs |-> [region |-> rs[i], release_dates |-> ds[i]]] :
        <<rs, ds>> \in UNION {{c \in [1..n -> RegionCodes] :
                                 \A i, j \in 1..n : c[i] = c[j] => i = j}
                              \X [1..n -> RegionDates] : n \in 0..MaxRegions}}

ApplySelectDigital ==
    /\ applied = NoApplied
    /\ \E results \in ReleaseDatesResults :
          applied' = [fn |-> "select_digital_release_date", results |-> results,
                      today |-> 2,
                      value |-> select_digital_release_date(results, 2)]
    /\ UNCHANGED <<pipelineVars, ledgerVars, telegramVars, tmdbVars, racers>>

FunctionsNext ==
    \/ ApplyChunkLines
    \/ ApplyGroup
    \/ ApplySelectPreferred
    \/ ApplySelectDigital

SpecFunctions == FunctionsInit /\ [][FunctionsNext]_vars

\* C36: for every header, list of lines and limit, each message produced by
\* chunk_lines has a text length of at most the limit.
C36_ChunksWithinLimit ==
    applied.fn = "chunk_lines" =>
        \A i \in DOMAIN applied.value : applied.value[i].len <= applied.max_len

\* C35: group_releases_by_chat gives each chat exactly the releases matching
\* its locales (a chat without locales matches all), with those inside the
\* priority window first and, among releases of equal priority, in the
\* lexical order of their titles.
C35_GroupedByPriorityThenTitle ==
    applied.fn = "group_releases_by_chat" =>
        /\ \A c \in DOMAIN applied.config :
              LET chat == applied.config[c]
                  matching == {r.id : r \in {x \in Range(applied.releases) :
                                                matches_locale(chat, x.locale)}}
                  given == {p \in Range(applied.value) : p.chat_id = chat.chat_id}
              IN IF matching = {} THEN given = {}
                 ELSE /\ Cardinality(given) = 1
                      /\ \A p \in given :
                            /\ Len(p.releases) = Cardinality(matching)
                            /\ {r.id : r \in Range(p.releases)} = matching
        /\ \A p \in Range(applied.value) :
              \A i, j \in DOMAIN p.releases :
                  i < j =>
                      /\ p.releases[i].priority \/ ~p.releases[j].priority
                      /\ p.releases[i].priority = p.releases[j].priority
                            => ~TitleLess(p.releases[j].title, p.releases[i].title)

(***************************************************************************)
(* Two runs of Orchestrator::run on two machines, each with its own        *)
(* SentHistory and local file, sharing the remote artifact; the steps of   *)
(* the two runs interleave freely.                                         *)
(***************************************************************************)
Racers == {1, 2}

\* the catalog answers of a racing run: at most one release
RaceFetchResults == {[i \in DOMAIN s |-> MovieRelease(s[i])] : s \in SeqsUpTo(Ids, 1)}

\* the ids a blob holds
IdsIn(blob) == IF blob.present THEN apply_raw({}, blob.bytes).ids ELSE {}

RaceInit ==
    /\ PipelineIdle
    /\ ids = {}
    /\ file = NoBlob
    /\ remote \in {NoBlob, Blob(render_file({1}))}
    /\ uploads = <<>>
    /\ call = NoCall
    /\ saved = NoSaved
    /\ dispatcher = NoDispatcher
    /\ BatchIdle
    /\ FetchIdle
    /\ applied = NoApplied
    /\ racers = [r \in Racers |->
                    [pc |-> "restoring", ids |-> {}, file |-> NoBlob,
                     unique |-> <<>>, delivered |-> {}, uploaded |-> FALSE,
                     result |-> "none"]]

\* Orchestrator::run, lines 69-75: restore, its failure swallowed
RaceRestore(r) ==
    /\ racers[r].pc = "restoring"
    /\ \E dl \in Outcomes, io \in Outcomes :
        LET res == restore(racers[r].ids, racers[r].file, remote, dl, io) IN
        racers' = [racers EXCEPT ![r].ids = res.ids, ![r].file = res.file,
                                 ![r].pc = "fetching"]
    /\ UNCHANGED <<pipelineVars, ledgerVars, telegramVars, tmdbVars, applied>>

\* lines 77-109: the fetch fails, or its releases are filtered; without a new
\* release the run ends after the empty-window messages
RaceFetch(r) ==
    /\ racers[r].pc = "fetching"
    /\ \/ racers' = [racers EXCEPT ![r].pc = "done", ![r].result = "Releases"]
       \/ \E rs \in RaceFetchResults :
            LET f == filter_new_releases(racers[r].ids, rs) IN
            racers' = IF f.unique = <<>>
                      THEN [racers EXCEPT ![r].pc = "done", ![r].result = "ok"]
                      ELSE [racers EXCEPT ![r].unique = IdsOf(f.unique),
                                          ![r].pc = "dispatching"]
    /\ UNCHANGED <<pipelineVars, ledgerVars, telegramVars, tmdbVars, applied>>

\* lines 111-129: every message is sent, or a send fails and ends the run
RaceDispatch(r) ==
    /\ racers[r].pc = "dispatching"
    /\ \/ racers' = [racers EXCEPT ![r].pc = "done", ![r].result = "Dispatch"]
       \/ LET us == racers[r].unique
              msgs == build_messages(
                          convert_releases([i \in DOMAIN us |-> MovieRelease(us[i])]),
                          Chats, Now)
          IN racers' = [racers EXCEPT ![r].delivered = NotifiedIds(msgs),
                                      ![r].pc = "persisting"]
    /\ UNCHANGED <<pipelineVars, ledgerVars, telegramVars, tmdbVars, applied>>

\* lines 131-150: append the new ids and persist, its failure swallowed
RacePersist(r) ==
    /\ racers[r].pc = "persisting"
    /\ LET a == append(racers[r].ids, racers[r].unique) IN
       IF a.inserted > 0
       THEN \E io \in Outcomes, up \in Outcomes :
              LET p == persist(a.ids, racers[r].file, remote, <<>>, io, up) IN
              /\ remote' = p.remote
              /\ racers' = [racers EXCEPT ![r].ids = a.ids, ![r].file = p.file,
                                          ![r].uploaded = (p.err = "none"),
                                          ![r].pc = "done", ![r].result = "ok"]
       ELSE /\ racers' = [racers EXCEPT ![r].ids = a.ids, ![r].pc = "done",
                                        ![r].result = "ok"]
            /\ UNCHANGED remote
    /\ UNCHANGED <<pipelineVars, telegramVars, tmdbVars, applied, ids, file,
                   uploads, call, saved>>

RaceNext ==
    \E r \in Racers :
        \/ RaceRestore(r)
        \/ RaceFetch(r)
        \/ RaceDispatch(r)
        \/ RacePersist(r)

SpecRace == RaceInit /\ [][RaceNext]_vars

\* C31: select_preferred_date returns the date not after today that is
\* closest to today when there is one, and otherwise the future date closest
\* to today.
C31_ClosestPastElseClosestFuture ==
    applied.fn = "select_preferred_date" =>
        LET all == Range(applied.dates)
            past == {d \in all : d <= applied.today}
        IN applied.value =
              IF past # {} THEN Some(CHOOSE d \in past : \A e \in past : e <= d)
              ELSE IF all # {} THEN Some(Min(all))
              ELSE None

\* the parsed digital (type 4) dates of the regions of an answer named in a set
DigitalDates(results, regions) == Range(Flatten(results, regions))

\* an answer without its entries of a release type other than 4
OnlyDigital(results) ==
    [i \in DOMAIN results |->
        [region |-> results[i].region,
         release_dates |->
             SelectSeq(results[i].release_dates, LAMBDA e : e.release_type = 4)]]

Reversed(s) == [i \in DOMAIN s |-> s[Len(s) + 1 - i]]

\* C32: whenever select_digital_release_date returns a value, the date is
\* one of the digital dates of the first region of the priority list that has
\* a digital date, in whatever order the regions were returned; only when no
\* priority region has one is it a digital date of the other regions (and
\* none when there is no digital date at all); entries of another release
\* type do not change the result.
C32_PriorityRegionDecides ==
    applied.fn = "select_digital_release_date" =>
        LET results == applied.results
            has == {r \in RegionCodes : DigitalDates(results, {r}) # {}}
            first == {k \in DOMAIN PRIORITY_DIGITAL_REGIONS :
                         /\ PRIORITY_DIGITAL_REGIONS[k] \in has
                         /\ \A l \in 1..(k - 1) : PRIORITY_DIGITAL_REGIONS[l] \notin has}
        IN /\ applied.value.ok =>
                 /\ \A k \in first :
                       /\ applied.value.date # None
                       /\ applied.value.date[1]
                              \in DigitalDates(results, {PRIORITY_DIGITAL_REGIONS[k]})
                 /\ first = {} /\ has # {} =>
                       /\ applied.value.date # None
                       /\ applied.value.date[1] \in DigitalDates(results, has)
                 /\ has = {} => applied.value.date = None
           /\ applied.value = select_digital_release_date(Reversed(results), applied.today)
           /\ applied.value = select_digital_release_date(OnlyDigital(results), applied.today)

\* a priority region decided although a region before it in the list had a
\* digital date too and was returned after it, beside a region with entries
\* of another type only
C32_Witness ==
    /\ applied.fn = "select_digital_release_date"
    /\ applied.value.ok
    /\ Len(applied.results) = 2
    /\ applied.results[1].region = "US"
    /\ applied.results[2].region = "RU"
    /\ DigitalDates(applied.results, {"US"}) # {}
    /\ DigitalDates(applied.results, {"RU"}) # {}
    /\ DigitalDates(applied.results, {"US"}) \cap DigitalDates(applied.results, {"RU"}) = {}
    /\ \E e \in Range(applied.results[2].release_dates) : e.release_type # 4
    /\ applied.value.date[1] \in DigitalDates(applied.results, {"RU"})

\* C33: a movie whose lookups were answered is pushed onto the fetch result
\* if and only if one of its production countries is in the allow-list, none
\* of its genres is in the deny-list and its runtime is known and at least 60
\* minutes, whatever its rating and vote count; a movie failing the rule is
\* skipped and the fetch goes on or ends as it would after any movie.
C33_RelevanceDecidesInclusion ==
    [][(/\ fetch.by # "none"
        /\ fetch.req.call = "release_dates"
        /\ fetch'.index > fetch.index) =>
            LET d == fetch.details
                keep == /\ d.production_countries \cap RELEVANT_PRODUCTION_COUNTRIES # {}
                        /\ d.genres \cap EXCLUDED_GENRES = {}
                        /\ d.runtime # <<>>
                        /\ d.runtime[1] >= 60
            IN /\ fetch'.releases = IF keep THEN Append(fetch.releases, fetch.req.n)
                                    ELSE fetch.releases
               /\ \/ tmdbResult' \in {"none", "ok"}
                  \/ /\ tmdbResult' = "DateParse"
                     /\ fetch'.index \in DOMAIN fetch.movies
                     /\ fetch.movies[fetch'.index].release_date = "soon"]_vars

\* a fetch that returned a list without a movie whose details and release
\* dates it had looked up
C33_Witness ==
    /\ fetch # NoFetch
    /\ tmdbResult = "ok"
    /\ \E i \in DOMAIN fetch.requests :
          /\ fetch.requests[i].call = "release_dates"
          /\ fetch.requests[i].n \notin Range(fetch.releases)

\* the stubs of a fetch that are skipped: id in the history or no date
SkippedStubs(f) ==
    {m \in Range(f.movies) : m.id \in f.history \/ m.release_date = ""}

\* C34: a fetch started by Orchestrator::run has the restored ledger in the
\* client's history before its first request; no details or release_dates
\* request is made for a movie whose id is in the history or whose
\* release_date is empty, and no such movie is in the releases.
C34_KnownIdsAreNotLookedUp ==
    fetch # NoFetch =>
        /\ fetch.by = "run" => fetch.ledger \subseteq fetch.history
        /\ \A m \in SkippedStubs(fetch) :
              /\ \A i \in DOMAIN fetch.requests :
                    fetch.requests[i].call \in {"details", "release_dates"}
                        => fetch.requests[i].n # m.id
              /\ m.id \notin Range(fetch.releases)

\* a run's fetch returned after it met a movie of the ledger and a movie
\* without a date
C34_Witness ==
    /\ fetch # NoFetch
    /\ fetch.by = "run"
    /\ tmdbResult = "ok"
    /\ \E m \in Range(fetch.movies) : m.id \in fetch.ledger
    /\ \E m \in Range(fetch.movies) : m.release_date = ""

\* C38: nothing orders the persist of one run after the restore of another:
\* a persist that succeeds leaves in the remote blob exactly the ids the
\* uploading run restored and the ones it added, whatever another run
\* uploaded since that restore.
C38_PersistUploadsOwnFullSet ==
    [][\A r \in Racers :
          (racers[r].pc = "persisting" /\ racers'[r].uploaded) =>
              /\ remote' = Blob(render_file(racers[r].ids \cup Range(racers[r].unique)))
              /\ IdsIn(remote') = racers'[r].ids]_vars

\* both runs are done; one of them delivered an id and uploaded it, and the
\* final remote blob, uploaded by the other run, does not hold that id
C38_Witness ==
    /\ racers # <<>>
    /\ \A r \in Racers : racers[r].pc = "done" /\ racers[r].uploaded
    /\ \E r \in Racers :
          \E id \in racers[r].delivered :
              /\ id \in racers[r].ids
              /\ id \notin IdsIn(remote)

====
